---- MODULE Spec2Model ----
(***************************************************************************)
(* Model of the search and matching core of the video library:             *)
(*   src/video_library_app.py          fuzzy search, search orchestration  *)
(*   src/categorize_youtube_videos.py  match_videos                        *)
(*   src/merge_aws_youtube_videos.py   find_unmatched_aws_videos           *)
(*                                                                         *)
(* A Python str is a sequence of one-character strings.  A Python float    *)
(* is an exact rational <<numerator, denominator>> in lowest terms with a  *)
(* positive denominator: every float the modelled code computes is a       *)
(* ratio of small integers times a decimal literal.                        *)
(***************************************************************************)
EXTENDS Integers, Sequences, FiniteSets, TLC

----------------------------------------------------------------------------
(* Rational arithmetic standing for Python float arithmetic.               *)

RECURSIVE GCD(_, _)
GCD(a, b) == IF b = 0 THEN a ELSE GCD(b, a % b)

Abs(n) == IF n < 0 THEN -n ELSE n

Rat(n, d) ==
    LET g == GCD(Abs(n), d)
    IN  IF n = 0 THEN <<0, 1>> ELSE <<n \div g, d \div g>>

RZero == <<0, 1>>
ROne  == <<1, 1>>

RLt(x, y)  == x[1] * y[2] < y[1] * x[2]
RLe(x, y)  == x[1] * y[2] <= y[1] * x[2]
RGt(x, y)  == RLt(y, x)
RGe(x, y)  == RLe(y, x)
RMul(x, y) == Rat(x[1] * y[1], x[2] * y[2])
RAdd(x, y) == Rat(x[1] * y[2] + y[1] * x[2], x[2] * y[2])
RDivInt(x, n) == Rat(x[1], x[2] * n)
RMax(x, y) == IF RLt(x, y) THEN y ELSE x
RMin(x, y) == IF RLt(y, x) THEN y ELSE x

----------------------------------------------------------------------------
(* Python str operations.                                                  *)

Upper ==
    <<"A", "B", "C", "D", "E", "F", "G", "H", "I", "J", "K", "L", "M",
      "N", "O", "P", "Q", "R", "S", "T", "U", "V", "W", "X", "Y", "Z">>
LowerOf ==
    <<"a", "b", "c", "d", "e", "f", "g", "h", "i", "j", "k", "l", "m",
      "n", "o", "p", "q", "r", "s", "t", "u", "v", "w", "x", "y", "z">>

\* str.lower() on one character
LowerChar(c) ==
    IF \E i \in 1..Len(Upper) : Upper[i] = c
    THEN LowerOf[CHOOSE i \in 1..Len(Upper) : Upper[i] = c]
    ELSE c

\* str.lower()
RECURSIVE Lower(_)
Lower(s) == IF s = <<>> THEN <<>> ELSE <<LowerChar(s[1])>> \o Lower(Tail(s))

IsSpace(c) == c = " "

\* a bound of a Python slice over n elements: a negative bound counts from
\* the end, and the result is clipped to 0..n
SliceBound(i, n) ==
    IF i < 0 THEN (IF n + i < 0 THEN 0 ELSE n + i)
    ELSE IF i > n THEN n ELSE i

\* s[lo:hi] with 0-based Python bounds
Slice(s, lo, hi) ==
    IF SliceBound(lo, Len(s)) >= SliceBound(hi, Len(s)) THEN <<>>
    ELSE SubSeq(s, SliceBound(lo, Len(s)) + 1, SliceBound(hi, Len(s)))

\* a // b of Python for b # 0: the floor of the quotient
FloorDiv(a, b) == IF b > 0 THEN a \div b ELSE (0 - a) \div (0 - b)

\* str.strip()
Strip(s) ==
    IF \A i \in 1..Len(s) : IsSpace(s[i]) THEN <<>>
    ELSE LET first == CHOOSE i \in 1..Len(s) :
                          /\ ~IsSpace(s[i])
                          /\ \A j \in 1..(i - 1) : IsSpace(s[j])
             last  == CHOOSE i \in 1..Len(s) :
                          /\ ~IsSpace(s[i])
                          /\ \A j \in (i + 1)..Len(s) : IsSpace(s[j])
         IN  SubSeq(s, first, last)

\* s[i..] starts with sub (1-based i)
StartsAt(s, sub, i) ==
    /\ i + Len(sub) - 1 <= Len(s)
    /\ \A k \in 1..Len(sub) : s[i + k - 1] = sub[k]

\* sub in s
Contains(s, sub) == \E i \in 1..(Len(s) + 1) : StartsAt(s, sub, i)

\* str.split(): maximal runs of non-whitespace characters
RECURSIVE SplitFrom(_, _, _)
SplitFrom(s, i, cur) ==
    IF i > Len(s)
    THEN IF cur = <<>> THEN <<>> ELSE <<cur>>
    ELSE IF IsSpace(s[i])
         THEN (IF cur = <<>> THEN <<>> ELSE <<cur>>) \o SplitFrom(s, i + 1, <<>>)
         ELSE SplitFrom(s, i + 1, Append(cur, s[i]))

Split(s) == SplitFrom(s, 1, <<>>)

\* str.replace(old, new) for a non-empty old: leftmost, non-overlapping
RECURSIVE ReplaceFrom(_, _, _, _)
ReplaceFrom(s, old, new, i) ==
    IF i > Len(s) THEN <<>>
    ELSE IF StartsAt(s, old, i)
         THEN new \o ReplaceFrom(s, old, new, i + Len(old))
         ELSE <<s[i]>> \o ReplaceFrom(s, old, new, i + 1)

Replace(s, old, new) == ReplaceFrom(s, old, new, 1)

\* ' '.join(words)
RECURSIVE JoinSpace(_)
JoinSpace(words) ==
    IF words = <<>> THEN <<>>
    ELSE IF Len(words) = 1 THEN words[1]
         ELSE words[1] \o <<" ">> \o JoinSpace(Tail(words))

----------------------------------------------------------------------------
(* difflib.SequenceMatcher(None, a, b).ratio()                             *)

AutoJunkLen == 200

\* elements __chain_b drops from b2j: with autojunk, an element occurring
\* more than len(b) // 100 + 1 times in a b of at least 200 elements
IsPopular(b, c) ==
    /\ Len(b) >= AutoJunkLen
    /\ Cardinality({j \in 1..Len(b) : b[j] = c}) > (Len(b) \div 100) + 1

\* length of the run of equal, non-popular elements starting at a[i], b[j]
\* (0-based), inside a[..ahi), b[..bhi)
RECURSIVE RunLen(_, _, _, _, _, _)
RunLen(a, b, i, j, ahi, bhi) ==
    IF i >= ahi \/ j >= bhi THEN 0
    ELSE IF a[i + 1] = b[j + 1] /\ ~IsPopular(b, b[j + 1])
         THEN 1 + RunLen(a, b, i + 1, j + 1, ahi, bhi)
         ELSE 0

\* extension of a block over equal elements to the left and to the right
RECURSIVE ExtendLeft(_, _, _, _, _, _)
ExtendLeft(a, b, i, j, alo, blo) ==
    IF i > alo /\ j > blo /\ a[i] = b[j]
    THEN 1 + ExtendLeft(a, b, i - 1, j - 1, alo, blo)
    ELSE 0

RECURSIVE ExtendRight(_, _, _, _, _, _)
ExtendRight(a, b, i, j, ahi, bhi) ==
    IF i < ahi /\ j < bhi /\ a[i + 1] = b[j + 1]
    THEN 1 + ExtendRight(a, b, i + 1, j + 1, ahi, bhi)
    ELSE 0

\* the runs of equal, non-popular elements: <<i, j, length>> for every
\* start (i, j) inside the two ranges
RunsOf(a, b, alo, ahi, blo, bhi) ==
    {<<p[1], p[2], RunLen(a, b, p[1], p[2], ahi, bhi)>> :
        p \in (alo..(ahi - 1)) \X (blo..(bhi - 1))}

NonEmptyRuns(runs) == {r \in runs : r[3] > 0}

\* the longest run, of those the one starting earliest in a, of those the
\* one starting earliest in b
BestRun(cand) ==
    CHOOSE p \in cand :
        \A q \in cand :
            \/ p[3] > q[3]
            \/ /\ p[3] = q[3]
               /\ \/ p[1] < q[1]
                  \/ p[1] = q[1] /\ p[2] <= q[2]

\* the block after its extension by l elements to the left, r to the right
ExtendedBlock(best, l, r) == <<best[1] - l, best[2] - l, best[3] + l + r>>

ExtendRun(a, b, best, alo, ahi, blo, bhi) ==
    ExtendedBlock(best,
                  ExtendLeft(a, b, best[1], best[2], alo, blo),
                  ExtendRight(a, b, best[1] + best[3], best[2] + best[3], ahi, bhi))

LongestOf(a, b, cand, alo, ahi, blo, bhi) ==
    IF cand = {} THEN <<alo, blo, ExtendRight(a, b, alo, blo, ahi, bhi)>>
    ELSE ExtendRun(a, b, BestRun(cand), alo, ahi, blo, bhi)

\* find_longest_match: <<i, j, k>>
find_longest_match(a, b, alo, ahi, blo, bhi) ==
    LongestOf(a, b, NonEmptyRuns(RunsOf(a, b, alo, ahi, blo, bhi)), alo, ahi, blo, bhi)

\* get_matching_blocks: total size of the blocks found recursively to the
\* left and to the right of each longest match m
RECURSIVE MatchTotal(_, _, _, _, _, _)
RECURSIVE BlocksAround(_, _, _, _, _, _, _)
BlocksAround(a, b, m, alo, ahi, blo, bhi) ==
    IF m[3] = 0 THEN 0
    ELSE m[3]
         + (IF alo < m[1] /\ blo < m[2]
            THEN MatchTotal(a, b, alo, m[1], blo, m[2]) ELSE 0)
         + (IF m[1] + m[3] < ahi /\ m[2] + m[3] < bhi
            THEN MatchTotal(a, b, m[1] + m[3], ahi, m[2] + m[3], bhi) ELSE 0)

MatchTotal(a, b, alo, ahi, blo, bhi) ==
    BlocksAround(a, b, find_longest_match(a, b, alo, ahi, blo, bhi), alo, ahi, blo, bhi)

\* ratio(): 2.0 * matches / (len(a) + len(b)), 1.0 for two empty sequences
SequenceMatcherRatio(a, b) ==
    IF Len(a) + Len(b) = 0 THEN ROne
    ELSE Rat(2 * MatchTotal(a, b, 0, Len(a), 0, Len(b)), Len(a) + Len(b))

----------------------------------------------------------------------------
(* Video records.  A dict key that is missing is Absent, a JSON null is    *)
(* None; both differ from every str.                                       *)

Absent == <<"<absent>">>
None   == <<"<none>">>

\* dict.get(key, default)
Get(d, key, default) == IF d[key] = Absent THEN default ELSE d[key]

\* Python truthiness of a str-or-None value
Truthy(x) == x # None /\ x # Absent /\ x # <<>>

\* code point order of the characters used
CharOrder ==
    <<" ", "&", "-", "/", "0", "1", "2", "3", "4", "5", "6", "7", "8",
      "9", ";", "<", ">", "A", "B", "C", "D", "E", "F", "G", "H", "I",
      "J", "K", "L", "M", "N", "O", "P", "Q", "R", "S", "T", "U", "V",
      "W", "X", "Y", "Z", "a", "b", "c", "d", "e", "f", "g", "h", "i",
      "j", "k", "l", "m", "n", "o", "p", "q", "r", "s", "t", "u", "v",
      "w", "x", "y", "z", "|">>

Ord(c) == CHOOSE i \in 1..Len(CharOrder) : CharOrder[i] = c

\* s < t for two str (lexicographic by code point)
RECURSIVE StrLt(_, _)
StrLt(s, t) ==
    IF t = <<>> THEN FALSE
    ELSE IF s = <<>> THEN TRUE
    ELSE IF s[1] = t[1] THEN StrLt(Tail(s), Tail(t))
    ELSE Ord(s[1]) < Ord(t[1])

----------------------------------------------------------------------------
(* Inputs.  Titles are never null (spec section 3); ids are unique within  *)
(* a collection.                                                           *)

VideoPool == {
    [content_id |-> 1,
     title |-> <<"P","e","d","i","a","t","r","i","c"," ","C","a","r","d","i","o","l","o","g","y"," ","B","a","s","i","c","s">>,
     description |-> None,
     created_at |-> <<"2","0","2","4">>,
     space_name |-> <<"C","a","r","d","i","o","l","o","g","y">>],
    [content_id |-> 2,
     title |-> <<"H","e","a","r","t"," ","C","a","r","e">>,
     description |-> <<"<","p",">","L","u","n","g"," ","&","a","m","p",";"," ","h","e","a","r","t","<","/","p",">">>,
     created_at |-> <<"2","0","2","3">>,
     space_name |-> <<"C","a","r","d","i","o","l","o","g","y">>],
    [content_id |-> 3,
     title |-> <<"a","b"," ","a","b"," ","a","b"," ","a","b"," ","a","b"," ","a","b">>,
     description |-> Absent,
     created_at |-> <<"2","0","2","3">>,
     space_name |-> <<>>],
    [content_id |-> 4,
     title |-> <<"H","e","a","r","t"," ","x","x">>,
     description |-> <<>>,
     created_at |-> Absent,
     space_name |-> <<"P","u","l","m","o","n","o","l","o","g","y">>],
    [content_id |-> 5,
     title |-> <<"a","b"," ","c","d"," ","e","f"," ","g","h">>,
     description |-> <<"l","u","n","g"," ","c","a","r","e">>,
     created_at |-> <<"2","0","2","4">>,
     space_name |-> None],
    [content_id |-> 6,
     title |-> <<"L","u","n","g">>,
     description |-> <<"h","a","r","t"," ","l","u","n","g","e">>,
     created_at |-> <<"2","0","2","4">>,
     space_name |-> Absent],
    [content_id |-> 7,
     title |-> <<"a","b","x","y">>,
     description |-> <<"a","b","c","d"," ","n","o","t","e","s">>,
     created_at |-> <<"2","0","2","2">>,
     space_name |-> <<"M","i","s","c">>] }

QueryPool == {
    <<"C","a","r","d","i","o","l","o","g","y">>,
    <<"C","a","r","d","i","o","l","o","g","i","e">>,
    <<>>,
    <<" ">>,
    <<"a","b"," ","c","d">>,
    <<"h","e","a","r","t"," ","l","u","n","g">>,
    <<"a","b","c","d","e","f","g","h">>,
    <<"H","e","a","r","t">>,
    <<"l","u","n","g","s"," ","c","a","r","e">>,
    <<"l","u","n","g">>,
    <<"a","b","c","d">>,
    <<"H","a","r","t">>,
    <<"h","e","a","r","t"," ","c","a","r","e"," ","z","q">>,
    <<"a","b","c">>,
    <<"a","b","x","c","d"," ","h","d","r","t">> }

MaxVideos == 2

\* the lists of at most n distinct elements of S
ListsOf(S, n) ==
    UNION {{l \in [1..k -> S] : \A i, j \in 1..k : i # j => l[i] # l[j]} : k \in 0..n}

VideoLists == ListsOf(VideoPool, MaxVideos)

\* the primary (AWS) and secondary (YouTube) records of the matching runs
AwsPool == {
    [content_id |-> 1,
     title |-> <<"I","n","t","r","o"," ","t","o"," ","A","s","t","h","m","a"," ","C","a","r","e">>,
     description |-> Absent,
     created_at |-> Absent,
     space_name |-> <<"P","u","l","m","o","n","o","l","o","g","y">>],
    [content_id |-> 2,
     title |-> <<"I","n","t","r","o"," ","t","o"," ","A","s","t","h","m","a"," ","C","o","w","s">>,
     description |-> Absent,
     created_at |-> Absent,
     space_name |-> <<"V","e","t","e","r","i","n","a","r","y">>],
    [content_id |-> 3,
     title |-> <<"I","n","t","r","o"," ","t","o"," ","A","s","t","h","m","a"," ","C","a","r","e">>,
     description |-> Absent,
     created_at |-> Absent,
     space_name |-> <<"A","l","l","e","r","g","y">>],
    [content_id |-> 4,
     title |-> <<"I","n","t","r","o"," ","t","o"," ","A","s","t","h","m","a"," ","C","a","r","e","s">>,
     description |-> Absent,
     created_at |-> Absent,
     space_name |-> <<>>],
    [content_id |-> 5,
     title |-> <<"H","e","a","r","t"," ","B","a","s","i","c","s">>,
     description |-> Absent,
     created_at |-> Absent,
     space_name |-> <<"C","a","r","d","i","o","l","o","g","y">>] }

YoutubePool == {
    [content_id |-> 101,
     title |-> <<"I","n","t","r","o"," ","t","o"," ","A","s","t","h","m","a"," ","C","a","r","e"," ","-"," ","S","t","a","y","C","u","r","r","e","n","t","M","D">>,
     description |-> Absent,
     created_at |-> Absent,
     space_name |-> <<"Y","o","u","T","u","b","e">>],
    [content_id |-> 102,
     title |-> <<"I","n","t","r","o"," ","t","o"," ","A","s","t","h","m","a"," ","C","o","w","s"," ","|"," ","S","t","a","y","C","u","r","r","e","n","t","M","D">>,
     description |-> Absent,
     created_at |-> Absent,
     space_name |-> <<"Y","o","u","T","u","b","e">>],
    [content_id |-> 103,
     title |-> <<"K","n","e","e"," ","S","u","r","g","e","r","y">>,
     description |-> Absent,
     created_at |-> Absent,
     space_name |-> <<"Y","o","u","T","u","b","e">>],
    [content_id |-> 104,
     title |-> <<"I","n","t","r","o"," ","t","o"," ","A","s","t","h","m","a"," ","C","a","r","e","s">>,
     description |-> Absent,
     created_at |-> Absent,
     space_name |-> <<"Y","o","u","T","u","b","e">>],
    [content_id |-> 105,
     title |-> None,
     description |-> Absent,
     created_at |-> Absent,
     space_name |-> <<"Y","o","u","T","u","b","e">>] }

MaxAws == 2
MaxYoutube == 2

AwsLists == ListsOf(AwsPool, MaxAws)
YoutubeLists == ListsOf(YoutubePool, MaxYoutube)

\* the records of the runs that make both matching passes over the same
\* lists
AgreeAwsPool == {v \in AwsPool : v.content_id \in {1, 5}} \cup {
    [content_id |-> 6,
     title |-> <<"C","T","A"," ","C","T","A"," ","C","T">>,
     description |-> Absent,
     created_at |-> Absent,
     space_name |-> <<"R","a","d","i","o","l","o","g","y">>] }

AgreeYoutubePool == {v \in YoutubePool : v.content_id \in {101, 103}} \cup {
    [content_id |-> 106,
     title |-> <<"C","T"," ","C","T","A"," ","C","T","A">>,
     description |-> Absent,
     created_at |-> Absent,
     space_name |-> <<"Y","o","u","T","u","b","e">>] }

AgreeAwsLists == ListsOf(AgreeAwsPool, MaxAws)
AgreeYoutubeLists == ListsOf(AgreeYoutubePool, MaxYoutube)

\* the arguments of the similarity_score runs: strings, None for an absent
\* title
StringPool == {
    <<>>,
    None,
    <<" ">>,
    <<"a">>,
    <<"a","a","b","a">>,
    <<"b","a","a","a">>,
    <<"a","b","a","b">>,
    <<"b","a","a","b">>,
    <<"A","a","B","a"," ">>,
    <<"H","e","a","r","t">>,
    <<"h","e","a","r","t","s">>,
    <<" ","h","e","a","r","t"," ","c","a","r","e">> }

\* threshold=0.5, the default and the value search_all_videos passes
DefaultThreshold == <<1, 2>>

----------------------------------------------------------------------------
(* src/video_library_app.py: the fuzzy search engine                       *)

fuzzy_match_ratio(str1, str2) == SequenceMatcherRatio(Lower(str1), Lower(str2))

\* re.sub(r'<[^>]+>', ' ', html): a '<', one or more characters other than
\* '>', then the first '>'
RECURSIVE StripTagsFrom(_, _)
StripTagsFrom(s, i) ==
    IF i > Len(s) THEN <<>>
    ELSE IF /\ s[i] = "<"
            /\ i + 1 <= Len(s)
            /\ s[i + 1] # ">"
            /\ \E j \in (i + 2)..Len(s) : s[j] = ">"
         THEN LET close == CHOOSE j \in (i + 2)..Len(s) :
                               /\ s[j] = ">"
                               /\ \A k \in (i + 2)..(j - 1) : s[k] # ">"
              IN  <<" ">> \o StripTagsFrom(s, close + 1)
         ELSE <<s[i]>> \o StripTagsFrom(s, i + 1)

extract_text_from_html(html) ==
    IF ~Truthy(html) THEN <<>>
    ELSE LET t0 == StripTagsFrom(html, 1)
             t1 == Replace(t0, <<"&", "n", "b", "s", "p", ";">>, <<" ">>)
             t2 == Replace(t1, <<"&", "a", "m", "p", ";">>, <<"&">>)
             t3 == Replace(t2, <<"&", "l", "t", ";">>, <<"<">>)
             t4 == Replace(t3, <<"&", "g", "t", ";">>, <<">">>)
         IN  JoinSpace(Split(t4))

min_length == 3

\* the result for a word shorter than min_length: substring or nothing
ShortWordResult(found) == <<found, IF found THEN ROne ELSE RZero>>

\* the result of the ratio test: 0.6 for a search word of 5 or more
\* characters, 0.5 for a shorter one
RatioResult(search_word, ratio) ==
    IF RGe(ratio, IF Len(search_word) >= 5 THEN <<3, 5>> ELSE <<1, 2>>)
    THEN <<TRUE, ratio>> ELSE <<FALSE, RZero>>

\* fuzzy_match_word(search_word, target_word): <<matched, score>>
fuzzy_match_word(search_word, target_word) ==
    IF Len(search_word) < min_length \/ Len(target_word) < min_length
    THEN ShortWordResult(Contains(target_word, search_word))
    ELSE IF search_word = target_word THEN <<TRUE, ROne>>
    ELSE IF Contains(target_word, search_word) \/ Contains(search_word, target_word)
         THEN <<TRUE, <<9, 10>>>>
    ELSE RatioResult(search_word, fuzzy_match_ratio(search_word, target_word))

\* search_lower and search_words of fuzzy_search_videos
SearchLower(search_term) == Strip(Lower(search_term))
SearchWords(search_lower) == SelectSeq(Split(search_lower), LAMBDA w : Len(w) >= 2)

\* mutant: the threshold of the caller is used whatever the length
AdjustedThreshold_Fixed(search_lower, threshold) == threshold

\* the threshold after the adjustment to the length of the search term
AdjustedThreshold(search_lower, threshold) ==
    IF Len(search_lower) < 4 THEN <<2, 5>>
    ELSE IF Len(search_lower) >= 10 THEN <<3, 5>>
    ELSE threshold

\* mutant: all(all(...)) in place of all(any(...))
AllWordsMatch_AllOfAll(search_words, words) ==
    \A si \in 1..Len(search_words) :
        \A ti \in 1..Len(words) : fuzzy_match_word(search_words[si], words[ti])[1]

\* all(any(fuzzy_match_word(sw, tw)[0] for tw in words) for sw in search_words)
AllWordsMatch(search_words, words) ==
    \A si \in 1..Len(search_words) :
        \E ti \in 1..Len(words) : fuzzy_match_word(search_words[si], words[ti])[1]

\* best_score of one search word over the title words
RECURSIVE BestWordScore(_, _, _)
BestWordScore(sw, words, best) ==
    IF words = <<>> THEN best
    ELSE BestWordScore(sw, Tail(words), RMax(best, fuzzy_match_word(sw, words[1])[2]))

RECURSIVE SumWordScores(_, _)
SumWordScores(search_words, words) ==
    IF search_words = <<>> THEN RZero
    ELSE RAdd(BestWordScore(search_words[1], words, RZero),
              SumWordScores(Tail(search_words), words))

\* number of pairs (sw, tw) with fuzzy_match_word(sw, tw)[0]
MatchingPairs(search_words, words) ==
    Cardinality({p \in (1..Len(search_words)) \X (1..Len(words)) :
                    fuzzy_match_word(search_words[p[1]], words[p[2]])[1]})

\* mutant: the average is capped at 0.95, not multiplied by it
PhraseTitle_Capped(sum, n) ==
    <<RMax(RZero, RMin(RDivInt(sum, n), <<19, 20>>)), "phrase_title">>

\* stage 2: min(avg_score * 0.95, 1.0) for the sum of the best word scores
PhraseTitle(sum, n) ==
    <<RMax(RZero, RMin(RMul(RDivInt(sum, n), <<19, 20>>), ROne)), "phrase_title">>

\* stage 3: the whole search term against the whole title
FuzzyTitle(title_ratio, threshold) ==
    IF RGe(title_ratio, threshold)
    THEN <<RMax(RZero, RMul(title_ratio, <<17, 20>>)), "fuzzy_title">>
    ELSE <<RZero, "None">>

\* fuzzy_match_word(search_lower, word) for each title word of 3 or more
\* characters
WordHits(search_lower, title_words) ==
    [i \in 1..Len(title_words) |->
        IF Len(title_words[i]) >= 3
        THEN fuzzy_match_word(search_lower, title_words[i])
        ELSE <<FALSE, RZero>>] \o <<>>

\* stage 4: the first title word the search term matches, then break
FuzzyWordTitle(s3, hits) ==
    IF \E i \in 1..Len(hits) : hits[i][1]
    THEN <<RMax(s3[1],
                RMul(hits[CHOOSE i \in 1..Len(hits) :
                              hits[i][1] /\ \A j \in 1..(i - 1) : ~hits[j][1]][2],
                     <<3, 4>>)),
           "fuzzy_word_title">>
    ELSE s3

TitleStageOf(title_lower, title_words, search_lower, search_words, threshold) ==
    IF Contains(title_lower, search_lower)
    THEN <<ROne, "exact_title">>
    ELSE IF search_words # <<>> /\ AllWordsMatch(search_words, title_words)
    THEN PhraseTitle(SumWordScores(search_words, title_words), Len(search_words))
    ELSE IF Len(search_lower) >= 3
    THEN FuzzyWordTitle(FuzzyTitle(fuzzy_match_ratio(search_lower, title_lower), threshold),
                        WordHits(search_lower, title_words))
    ELSE <<RZero, "None">>

\* stages 1-4 of the loop body: <<score, match_type>> after the title stages
TitleStage(title_lower, search_lower, search_words, threshold) ==
    TitleStageOf(title_lower, Split(title_lower), search_lower, search_words, threshold)

\* stage 5, third check: the search term against the first 300 characters
FuzzyDescription(cur, desc_ratio, threshold) ==
    IF RGe(desc_ratio, threshold)
    THEN <<RMax(cur[1], RMul(desc_ratio, <<9, 20>>)), "fuzzy_description">>
    ELSE cur

\* the three description checks
DescriptionChecks(cur, desc_lower, search_lower, search_words, threshold) ==
    IF Contains(desc_lower, search_lower)
    THEN <<RMax(cur[1], <<13, 20>>), "exact_description">>
    ELSE IF search_words # <<>> /\ AllWordsMatch(search_words, Slice(Split(desc_lower), 0, 50))
    THEN <<RMax(cur[1], <<11, 20>>), "phrase_description">>
    ELSE IF Len(search_lower) >= 3
    THEN FuzzyDescription(cur, fuzzy_match_ratio(search_lower, Slice(desc_lower, 0, 300)),
                          threshold)
    ELSE cur

\* mutant: the description checks run whatever the score
DescriptionStage_Always(cur, desc_lower, search_lower, search_words, threshold) ==
    DescriptionChecks(cur, desc_lower, search_lower, search_words, threshold)

\* stage 5: the description checks, run while the score is below 0.6
DescriptionStage(cur, desc_lower, search_lower, search_words, threshold) ==
    IF ~RLt(cur[1], <<3, 5>>) THEN cur
    ELSE DescriptionChecks(cur, desc_lower, search_lower, search_words, threshold)

\* (total_matches / len(search_words)) * 0.35 when a pair matches
PartialScore(cur, total_matches, n) ==
    IF total_matches > 0
    THEN <<RMax(cur[1], RMul(Rat(total_matches, n), <<7, 20>>)), "partial">>
    ELSE cur

\* mutant: the partial stage runs whatever the score
PartialStage_Always(cur, title_lower, desc_lower, search_words) ==
    IF search_words # <<>>
    THEN PartialScore(cur,
                      MatchingPairs(search_words, Split(title_lower))
                          + MatchingPairs(search_words, Slice(Split(desc_lower), 0, 30)),
                      Len(search_words))
    ELSE cur

\* stage 6: partial word matches, run while the score is below 0.4
PartialStage(cur, title_lower, desc_lower, search_words) ==
    IF RLt(cur[1], <<2, 5>>) /\ search_words # <<>>
    THEN PartialScore(cur,
                      MatchingPairs(search_words, Split(title_lower))
                          + MatchingPairs(search_words, Slice(Split(desc_lower), 0, 30)),
                      Len(search_words))
    ELSE cur

\* the loop body for the lower-cased search term, title and description
ScoreTexts(title_lower, desc_lower, search_lower, search_words, threshold) ==
    PartialStage(
        DescriptionStage(TitleStage(title_lower, search_lower, search_words, threshold),
                         desc_lower, search_lower, search_words, threshold),
        title_lower, desc_lower, search_words)

ScoreLowered(title_lower, desc_lower, search_lower, threshold) ==
    ScoreTexts(title_lower, desc_lower, search_lower, SearchWords(search_lower),
               AdjustedThreshold(search_lower, threshold))

\* description = video.get('description', '') or ''
DescriptionOf(video) ==
    IF Truthy(Get(video, "description", <<>>)) THEN video.description ELSE <<>>

\* the body of the loop over videos: <<score, match_type>> of one video
ScoreVideo(video, search_term, threshold) ==
    ScoreLowered(Lower(Get(video, "title", <<>>)),
                 Lower(extract_text_from_html(DescriptionOf(video))),
                 SearchLower(search_term), threshold)

\* table[key] when the table has the key, the computed value otherwise
Lookup(table, key, computed) == IF key \in DOMAIN table THEN table[key] ELSE computed

\* ScoreVideo over the pools at the default threshold, computed once:
\* VideoScore(v, q, t) = ScoreVideo(v, q, t) for all v, q, t
RECURSIVE ScoreRowOf(_, _)
ScoreRowOf(video, queries) ==
    IF queries = {} THEN <<>>
    ELSE LET q == CHOOSE q \in queries : TRUE
         IN  (<<video, q, DefaultThreshold>> :> ScoreVideo(video, q, DefaultThreshold))
                 @@ ScoreRowOf(video, queries \ {q})

RECURSIVE ScoreTableOf(_)
ScoreTableOf(pool) ==
    IF pool = {} THEN <<>>
    ELSE LET v == CHOOSE v \in pool : TRUE
         IN  ScoreRowOf(v, QueryPool) @@ ScoreTableOf(pool \ {v})

ScoreTable == ScoreTableOf(VideoPool)

VideoScore(video, search_term, threshold) ==
    Lookup(ScoreTable, <<video, search_term, threshold>>,
           ScoreVideo(video, search_term, threshold))

\* mutant: the sort key is the score alone
KeyLt_ScoreOnly(x, y, withDate) == RLt(x.score, y.score)

\* x sorts before y in ascending key order: the key is (score, created_at)
\* in fuzzy_search_videos (withDate) and score alone in search_all_videos
KeyLt(x, y, withDate) ==
    \/ RLt(x.score, y.score)
    \/ /\ withDate
       /\ x.score = y.score
       /\ StrLt(Get(x.video, "created_at", <<>>), Get(y.video, "created_at", <<>>))

\* list.sort(key=..., reverse=True): stable, descending
RECURSIVE InsertDesc(_, _, _)
InsertDesc(sorted, x, withDate) ==
    IF sorted = <<>> THEN <<x>>
    ELSE IF KeyLt(sorted[1], x, withDate) THEN <<x>> \o sorted
    ELSE <<sorted[1]>> \o InsertDesc(Tail(sorted), x, withDate)

RECURSIVE SortDesc(_, _)
SortDesc(list, withDate) ==
    IF list = <<>> THEN <<>>
    ELSE InsertDesc(SortDesc(SubSeq(list, 1, Len(list) - 1), withDate),
                    list[Len(list)], withDate)

\* if score > 0: results.append((video, score, match_type))
ResultEntry(video, r) ==
    IF RGt(r[1], RZero)
    THEN <<[video |-> video, score |-> r[1], match_type |-> r[2]]>>
    ELSE <<>>

\* the results list before the sort: one entry per video with score > 0
RECURSIVE ScoredResults(_, _, _)
ScoredResults(videos, search_term, threshold) ==
    IF videos = <<>> THEN <<>>
    ELSE ResultEntry(videos[1], VideoScore(videos[1], search_term, threshold))
             \o ScoredResults(Tail(videos), search_term, threshold)

fuzzy_search_videos(videos, search_term, threshold) ==
    SortDesc(ScoredResults(videos, search_term, threshold), TRUE)

----------------------------------------------------------------------------
(* src/categorize_youtube_videos.py, src/merge_aws_youtube_videos.py:      *)
(* the cross-source matcher                                                *)

\* mutant: the guard "if not str1 or not str2" is dropped, an empty or
\* absent argument compared as the empty string
similarity_score_NoGuard(str1, str2) ==
    SequenceMatcherRatio(Strip(Lower(IF Truthy(str1) THEN str1 ELSE <<>>)),
                         Strip(Lower(IF Truthy(str2) THEN str2 ELSE <<>>)))

similarity_score(str1, str2) ==
    IF ~Truthy(str1) \/ ~Truthy(str2) THEN RZero
    ELSE SequenceMatcherRatio(Strip(Lower(str1)), Strip(Lower(str2)))

normalize_title(title) ==
    IF ~Truthy(title) THEN <<>>
    ELSE LET t0 == Strip(Lower(title))
             t1 == Replace(t0, <<" ","-"," ","s","t","a","y","c","u","r","r","e","n","t","m","d">>, <<>>)
         IN  Replace(t1, <<" ","|"," ","s","t","a","y","c","u","r","r","e","n","t","m","d">>, <<>>)

\* the threshold of the test title_score > 0.85
MatchThreshold == <<17, 20>>

\* normalize_title over the titles of the pools, computed once:
\* NormalizedTitle(t) = normalize_title(t) for all t
PoolTitles ==
    {Get(v, "title", <<>>) : v \in AwsPool \cup YoutubePool \cup AgreeAwsPool \cup AgreeYoutubePool}

RECURSIVE NormalizedTableOf(_)
NormalizedTableOf(titles) ==
    IF titles = {} THEN <<>>
    ELSE LET t == CHOOSE t \in titles : TRUE
         IN  (<<t>> :> normalize_title(t)) @@ NormalizedTableOf(titles \ {t})

NormalizedTable == NormalizedTableOf(PoolTitles)

NormalizedTitle(title) == Lookup(NormalizedTable, <<title>>, normalize_title(title))

\* similarity_score over the normalized titles of the pools, computed once:
\* TitleScore(a, b) = similarity_score(a, b) for all a, b
NormalizedTitles == {NormalizedTitle(t) : t \in PoolTitles}

RECURSIVE SimilarityRowOf(_, _)
SimilarityRowOf(a, titles) ==
    IF titles = {} THEN <<>>
    ELSE LET b == CHOOSE b \in titles : TRUE
         IN  (<<a, b>> :> similarity_score(a, b)) @@ SimilarityRowOf(a, titles \ {b})

RECURSIVE SimilarityTableOf(_)
SimilarityTableOf(titles) ==
    IF titles = {} THEN <<>>
    ELSE LET a == CHOOSE a \in titles : TRUE
         IN  SimilarityRowOf(a, NormalizedTitles) @@ SimilarityTableOf(titles \ {a})

SimilarityTable == SimilarityTableOf(NormalizedTitles)

TitleScore(a, b) == Lookup(SimilarityTable, <<a, b>>, similarity_score(a, b))

\* mutant: title_score >= 0.85 in place of title_score > 0.85
BetterMatch_AtThreshold(best, i, title_score, aws_space) ==
    IF RGt(title_score, best[2]) /\ RGe(title_score, MatchThreshold)
    THEN <<i, title_score, aws_space>> ELSE best

\* mutant: title_score >= best_score in place of title_score > best_score
BetterMatch_LastTie(best, i, title_score, aws_space) ==
    IF RGe(title_score, best[2]) /\ RGt(title_score, MatchThreshold)
    THEN <<i, title_score, aws_space>> ELSE best

\* if title_score > best_score and title_score > 0.85: the new best
BetterMatch(best, i, title_score, aws_space) ==
    IF RGt(title_score, best[2]) /\ RGt(title_score, MatchThreshold)
    THEN <<i, title_score, aws_space>> ELSE best

\* the loop over aws_videos for one YouTube title:
\* best == <<index of best_match (0 for None), best_score, best_space>>
RECURSIVE BestAwsMatch(_, _, _, _)
BestAwsMatch(yt_title, aws_videos, i, best) ==
    IF i > Len(aws_videos) THEN best
    ELSE BestAwsMatch(yt_title, aws_videos, i + 1,
             BetterMatch(best, i,
                 TitleScore(yt_title, NormalizedTitle(Get(aws_videos[i], "title", <<>>))),
                 Get(aws_videos[i], "space_name", <<>>)))

\* matches[key] = value on a dict
DictSet(d, key, value) ==
    [k \in (DOMAIN d) \cup {key} |-> IF k = key THEN value ELSE d[k]]

EmptyDict == [k \in {} |-> {}]

\* mutant: the record is appended to unmatched_youtube in both branches
Record_AlsoUnmatched(acc, yt_video, aws_videos, best) ==
    [unmatched_youtube |-> Append(acc.unmatched_youtube, yt_video),
     matches |-> IF best[1] # 0 /\ Truthy(best[3])
                 THEN DictSet(acc.matches, yt_video.content_id,
                              [space_name |-> best[3],
                               match_score |-> best[2],
                               youtube_title |-> Get(yt_video, "title", None),
                               aws_title |-> Get(aws_videos[best[1]], "title", None)])
                 ELSE acc.matches]

\* if best_match and best_space: matches[content_id] = {...}
\* else: unmatched_youtube.append(yt_video)
Record(acc, yt_video, aws_videos, best) ==
    IF best[1] # 0 /\ Truthy(best[3])
    THEN [acc EXCEPT !.matches =
             DictSet(@, yt_video.content_id,
                     [space_name |-> best[3],
                      match_score |-> best[2],
                      youtube_title |-> Get(yt_video, "title", None),
                      aws_title |-> Get(aws_videos[best[1]], "title", None)])]
    ELSE [acc EXCEPT !.unmatched_youtube = Append(@, yt_video)]

\* match_videos: [matches, unmatched_youtube] after the loop over
\* youtube_videos[i..]
RECURSIVE MatchLoop(_, _, _, _)
MatchLoop(youtube_videos, aws_videos, i, acc) ==
    IF i > Len(youtube_videos) THEN acc
    ELSE MatchLoop(youtube_videos, aws_videos, i + 1,
             Record(acc, youtube_videos[i], aws_videos,
                    BestAwsMatch(NormalizedTitle(Get(youtube_videos[i], "title", <<>>)),
                                 aws_videos, 1, <<0, RZero, None>>)))

match_videos(youtube_videos, aws_videos) ==
    MatchLoop(youtube_videos, aws_videos, 1,
              [matches |-> EmptyDict, unmatched_youtube |-> <<>>])

\* find_unmatched_aws_videos, the inner loop: found_match after
\* youtube_videos[j..], with the break at the first title_score > 0.85
RECURSIVE FoundMatch(_, _, _)
FoundMatch(aws_title, youtube_videos, j) ==
    IF j > Len(youtube_videos) THEN FALSE
    ELSE IF RGt(TitleScore(aws_title,
                           NormalizedTitle(Get(youtube_videos[j], "title", <<>>))),
                MatchThreshold)
    THEN TRUE
    ELSE FoundMatch(aws_title, youtube_videos, j + 1)

\* if not found_match: unmatched.append(aws_video)
KeepUnmatched(unmatched, aws_video, found_match) ==
    IF found_match THEN unmatched ELSE Append(unmatched, aws_video)

\* find_unmatched_aws_videos, the outer loop over aws_videos[i..]
RECURSIVE UnmatchedLoop(_, _, _, _)
UnmatchedLoop(aws_videos, youtube_videos, i, unmatched) ==
    IF i > Len(aws_videos) THEN unmatched
    ELSE UnmatchedLoop(aws_videos, youtube_videos, i + 1,
             KeepUnmatched(unmatched, aws_videos[i],
                 FoundMatch(NormalizedTitle(Get(aws_videos[i], "title", <<>>)),
                            youtube_videos, 1)))

find_unmatched_aws_videos(aws_videos, youtube_videos) ==
    UnmatchedLoop(aws_videos, youtube_videos, 1, <<>>)

\* mutant: the primary records are put first
merge_videos_AwsFirst(youtube_videos, aws_unmatched_videos) ==
    aws_unmatched_videos \o youtube_videos

\* all_videos.extend(youtube_videos); all_videos.extend(aws_unmatched_videos)
merge_videos(youtube_videos, aws_unmatched_videos) ==
    youtube_videos \o aws_unmatched_videos

----------------------------------------------------------------------------
(* The application: startup and the /api/search handler                    *)

\* the videos the loader can return and the longest loaded list
AppVideoPool == {v \in VideoPool : v.content_id \in {2, 4, 5, 6}}
MaxLoaded == 2
LoadedLists == ListsOf(AppVideoPool, MaxLoaded)

\* request.args of /api/search: search, page, per_page
SearchPool == {<<>>, <<" ">>, <<"H", "e", "a", "r", "t">>, <<"h", "e", "a", "r", "t", " ", "l", "u", "n", "g">>}
\* <<page, per_page>> of request.args, type=int: any integer is accepted
PagingPool == {<<1, 1>>, <<1, 2>>, <<2, 1>>, <<2, 2>>,
               <<0, 1>>, <<-1, 1>>, <<1, 0>>, <<1, -1>>}

\* what the two id queries of the auxiliary stores can answer: DISTINCT
\* content_id ORDER BY content_id; id 9 is not loaded
AuxIdLists == {<<>>, <<5>>, <<2, 9>>}

\* what get_timestops_for_videos can answer for the ids of the result list
TimestopRows ==
    <<[label |-> <<"H", "e", "a", "r", "t", " ", "v", "a", "l", "v", "e">>, summary |-> None],
      [label |-> <<"L", "u", "n", "g">>, summary |-> <<"h", "e", "a", "r", "t", " ", "c", "a", "r", "e">>]>>

TimestopDicts == {EmptyDict, 2 :> TimestopRows @@ 5 :> TimestopRows}

\* what a query of an auxiliary store does: it answers, or it raises
\* (no credentials file, no connection, a failed statement)
IdsAnswer(ids) == [raises |-> FALSE, ids |-> ids]
RowsAnswer(rows) == [raises |-> FALSE, rows |-> rows]
IdsRaises == [raises |-> TRUE, ids |-> <<>>]
RowsRaises == [raises |-> TRUE, rows |-> EmptyDict]

\* the three stores during one request: the chapter-marker search, the
\* transcript search and the per-result timestop lookup
AuxScenarios ==
    {[ts |-> IdsAnswer(a), tr |-> IdsAnswer(b), lookup |-> RowsAnswer(d)] :
        a \in AuxIdLists, b \in AuxIdLists, d \in TimestopDicts}
    \cup {[ts |-> IdsRaises, tr |-> IdsAnswer(b), lookup |-> RowsAnswer(d)] :
        b \in {<<>>, <<5>>}, d \in TimestopDicts \ {EmptyDict}}
    \cup {[ts |-> IdsAnswer(a), tr |-> IdsRaises, lookup |-> RowsAnswer(d)] :
        a \in AuxIdLists, d \in TimestopDicts \ {EmptyDict}}
    \cup {[ts |-> IdsAnswer(a), tr |-> IdsAnswer(<<>>), lookup |-> RowsRaises] :
        a \in {<<>>, <<5>>}}
    \cup {[ts |-> IdsRaises, tr |-> IdsRaises, lookup |-> RowsRaises]}

\* the value a call returns, or the exception that leaves it
Returns(value) == [raised |-> FALSE, value |-> value]

\* mutant: the exception of the chapter-marker query is not caught
search_timestops_in_database_NoCatch(outcome) ==
    [raised |-> outcome.raises, value |-> outcome.ids]

\* search_timestops_in_database: the ids, or [] from the except branch
search_timestops_in_database(outcome) ==
    Returns(IF outcome.raises THEN <<>> ELSE outcome.ids)

\* search_transcriptions_in_database: the ids, or [] from the except branch
search_transcriptions_in_database(outcome) ==
    Returns(IF outcome.raises THEN <<>> ELSE outcome.ids)

\* get_timestops_for_videos: {} without ids and from the except branch
get_timestops_for_videos(video_ids, outcome) ==
    IF video_ids = {} \/ outcome.raises THEN EmptyDict ELSE outcome.rows

\* the _score values the search service can attach to a hit
EsScores == {<<3, 2>>, <<1, 4>>}

UnknownSpace == <<"U", "n", "k", "n", "o", "w", "n", " ", "S", "p", "a", "c", "e">>
UnknownDate == <<"U", "n", "k", "n", "o", "w", "n", " ", "d", "a", "t", "e">>
Untitled == <<"U", "n", "t", "i", "t", "l", "e", "d">>

\* the arguments of the categorize_by_space runs
MaxGrouped == 3
GroupedLists == ListsOf(VideoPool, MaxGrouped)

\* mutant: the label is used as the key whatever it is
RECURSIVE categorize_by_space_NoDefault(_)
categorize_by_space_NoDefault(loaded) ==
    IF loaded = <<>> THEN EmptyDict
    ELSE LET spaces == categorize_by_space_NoDefault(SubSeq(loaded, 1, Len(loaded) - 1))
             video == loaded[Len(loaded)]
             space_name == Get(video, "space_name", UnknownSpace)
         IN  IF space_name \in DOMAIN spaces
             THEN DictSet(spaces, space_name, Append(spaces[space_name], video))
             ELSE DictSet(spaces, space_name, <<video>>)

\* space_name = video.get('space_name', 'Unknown Space'), coerced to
\* 'Unknown Space' when it is None or ''
DefaultSpace(space_name) ==
    IF ~Truthy(space_name) THEN UnknownSpace ELSE space_name

SpaceKey(video) == DefaultSpace(Get(video, "space_name", UnknownSpace))

\* spaces[space_name].append(video) on the defaultdict
AddToSpace(spaces, space_name, video) ==
    IF space_name \in DOMAIN spaces
    THEN DictSet(spaces, space_name, Append(spaces[space_name], video))
    ELSE DictSet(spaces, space_name, <<video>>)

\* categorize_by_space: dict space_name -> list of videos
RECURSIVE categorize_by_space(_)
categorize_by_space(loaded) ==
    IF loaded = <<>> THEN EmptyDict
    ELSE AddToSpace(categorize_by_space(SubSeq(loaded, 1, Len(loaded) - 1)),
                    SpaceKey(loaded[Len(loaded)]), loaded[Len(loaded)])

\* the document index_videos_in_elasticsearch builds for a video
IndexDoc(video) ==
    [content_id |-> video.content_id,
     title |-> Get(video, "title", <<>>),
     description |-> IF Truthy(Get(video, "description", <<>>))
                     THEN video.description ELSE <<>>,
     space_name |-> Get(video, "space_name", UnknownSpace),
     created_at |-> Get(video, "created_at", <<>>)]

IndexDocs(loaded) == [i \in 1..Len(loaded) |-> IndexDoc(loaded[i])]

\* es_client.search(sort=[created_at desc, _score]): order of two hits
EsBefore(x, y) ==
    \/ StrLt(y._source.created_at, x._source.created_at)
    \/ /\ x._source.created_at = y._source.created_at
       /\ RGt(x._score, y._score)

RECURSIVE EsInsert(_, _)
EsInsert(sorted, x) ==
    IF sorted = <<>> THEN <<x>>
    ELSE IF ~EsBefore(sorted[1], x) THEN <<x>> \o sorted
    ELSE <<sorted[1]>> \o EsInsert(Tail(sorted), x)

RECURSIVE EsHits(_, _, _)
EsHits(docs, scores, i) ==
    IF i > Len(docs) THEN <<>>
    ELSE IF i \in DOMAIN scores
    THEN EsInsert(EsHits(docs, scores, i + 1), [_source |-> docs[i], _score |-> scores[i]])
    ELSE EsHits(docs, scores, i + 1)

\* what the search service can answer to one query over the indexed
\* documents: it raises, or it matches some documents and scores them; a
\* negative from_ or size is rejected by the service, which raises
EsRaises == [raises |-> TRUE, hits |-> <<>>]

EsAnswers(docs, from_index, size) ==
    IF from_index < 0 \/ size < 0 THEN {EsRaises}
    ELSE {EsRaises} \cup
         {[raises |-> FALSE, hits |-> EsHits(docs, scores, 1)] :
             scores \in UNION {[M -> EsScores] : M \in SUBSET (1..Len(docs))}}

\* mutant: the exception of es_client.search is not caught
UsesElasticsearch_NoCatch(client, answer) == client

\* if es_client: try: ... except Exception: fall through to the fuzzy search
UsesElasticsearch(client, answer) == client /\ ~answer.raises

\* round(x, 3), ties to the even thousandth
Round3(x) ==
    LET n == x[1] * 1000
        q == n \div x[2]
        r == n % x[2]
    IN  IF 2 * r > x[2] \/ (2 * r = x[2] /\ q % 2 = 1)
        THEN Rat(q + 1, 1000) ELSE Rat(q, 1000)

\* x.get('created_at', '')[:10] if x.get('created_at') else 'Unknown date'
DisplayDate(x) ==
    IF Truthy(Get(x, "created_at", <<>>)) THEN Slice(x.created_at, 0, 10) ELSE UnknownDate

\* one entry of video_list
FormatEntry(video_id, source, space_name, score, match_type) ==
    [id |-> video_id,
     title |-> Get(source, "title", Untitled),
     description |-> Get(source, "description", <<>>),
     created_at |-> DisplayDate(source),
     space_name |-> space_name,
     score |-> score,
     match_type |-> match_type,
     relevant_timestops |-> Absent]

\* timestop_videos: content_id -> video, for the loaded videos whose id is in
\* either auxiliary id list
TimestopVideos(loaded, ts_ids, tr_ids) ==
    LET ids == {ts_ids[i] : i \in 1..Len(ts_ids)} \cup {tr_ids[i] : i \in 1..Len(tr_ids)}
        hit == {i \in 1..Len(loaded) : loaded[i].content_id \in ids}
    IN  [id \in {loaded[i].content_id : i \in hit} |->
            loaded[CHOOSE i \in hit : /\ loaded[i].content_id = id
                                      /\ \A j \in hit : loaded[j].content_id = id => j <= i]]

SeqIds(list) == {list[i].id : i \in 1..Len(list)}

\* for video_id in timestop_video_ids: append the videos not already listed
RECURSIVE AppendTimestops(_, _, _, _, _)
AppendTimestops(video_list, from_search, ts_ids, ts_videos, i) ==
    IF i > Len(ts_ids) THEN video_list
    ELSE IF ts_ids[i] \notin from_search /\ ts_ids[i] \in DOMAIN ts_videos
    THEN AppendTimestops(
             Append(video_list,
                    FormatEntry(ts_ids[i], ts_videos[ts_ids[i]],
                                Get(ts_videos[ts_ids[i]], "space_name", UnknownSpace),
                                <<1, 2>>, "timestop")),
             from_search, ts_ids, ts_videos, i + 1)
    ELSE AppendTimestops(video_list, from_search, ts_ids, ts_videos, i + 1)

\* the timestops whose label or summary contains the lower-cased query
RECURSIVE RelevantTimestops(_, _)
RelevantTimestops(rows, search_lower) ==
    IF rows = <<>> THEN <<>>
    ELSE IF \/ Contains(Lower(rows[1].label), search_lower)
            \/ /\ Truthy(rows[1].summary)
               /\ Contains(Lower(rows[1].summary), search_lower)
    THEN <<rows[1]>> \o RelevantTimestops(Tail(rows), search_lower)
    ELSE RelevantTimestops(Tail(rows), search_lower)

\* get_timestops_for_videos(all_video_ids) and the relevant_timestops field
AttachTimestops(video_list, search, timestops_dict) ==
    [i \in 1..Len(video_list) |->
        IF video_list[i].id \in DOMAIN timestops_dict
        THEN [video_list[i] EXCEPT !.relevant_timestops =
                  Slice(RelevantTimestops(timestops_dict[video_list[i].id], Lower(search)),
                        0, 5)]
        ELSE video_list[i]]

\* mutant: each page starts one position early for every page before it
Paginate_Overlap(list, page, per_page) ==
    Slice(list, (page - 1) * (per_page - 1), (page - 1) * (per_page - 1) + per_page)

\* start = (page - 1) * per_page; list[start:start + per_page]
Paginate(list, page, per_page) ==
    Slice(list, (page - 1) * per_page, (page - 1) * per_page + per_page)

Pagination(page, per_page, total) ==
    [page |-> page, per_page |-> per_page, total |-> total,
     total_pages |-> FloorDiv(total + per_page - 1, per_page)]

\* if not search: the early return
EmptyQueryResponse(per_page) ==
    [videos |-> <<>>,
     pagination |-> [page |-> 1, per_page |-> per_page, total |-> 0, total_pages |-> 0]]

\* sort, paginate and build the response: the tail both paths share
SearchResponse(video_list, search, page, per_page, ts_ids, engine) ==
    [videos |-> Paginate(SortDesc(video_list, FALSE), page, per_page),
     pagination |-> Pagination(page, per_page, Len(video_list)),
     search_term |-> search,
     search_engine |-> engine,
     timestop_matches |-> Len(ts_ids)]

\* the timestop loop over the page of primary hits
MergeTimestops(found, ts_ids, ts_videos) ==
    AppendTimestops(found, SeqIds(found), ts_ids, ts_videos, 1)

\* the timestops looked up and attached, then the shared tail
ListResponse(merged, search, page, per_page, ts_ids, lookup, engine) ==
    SearchResponse(AttachTimestops(merged, search,
                                   get_timestops_for_videos(SeqIds(merged), lookup)),
                   search, page, per_page, ts_ids, engine)

\* the hits the service returns for from_ = (page - 1) * per_page, size = per_page
EsVideoList(hits) ==
    [i \in 1..Len(hits) |->
        FormatEntry(hits[i]._source.content_id, hits[i]._source,
                    Get(hits[i]._source, "space_name", UnknownSpace),
                    hits[i]._score, "metadata")]

\* video_list of the indexed-search path before the timestop lookup
EsMergedList(answer, page, per_page, ts_ids, ts_videos) ==
    MergeTimestops(EsVideoList(Paginate(answer.hits, page, per_page)), ts_ids, ts_videos)

\* the indexed-search path of search_all_videos
ElasticsearchResponse(answer, search, page, per_page, ts_ids, ts_videos, lookup) ==
    ListResponse(EsMergedList(answer, page, per_page, ts_ids, ts_videos),
                 search, page, per_page, ts_ids, lookup, "elasticsearch")

\* matched_videos formatted for the response
FuzzyVideoList(items) ==
    [i \in 1..Len(items) |->
        FormatEntry(items[i].video.content_id, items[i].video,
                    Get(items[i].video, "space_name", UnknownSpace),
                    Round3(items[i].score), "metadata")]

\* video_list of the fuzzy path before the timestop lookup
FuzzyMergedList(loaded, search, page, per_page, ts_ids, ts_videos) ==
    MergeTimestops(
        FuzzyVideoList(Paginate(fuzzy_search_videos(loaded, search, DefaultThreshold),
                                page, per_page)),
        ts_ids, ts_videos)

\* the fuzzy path of search_all_videos
FuzzyResponse(loaded, search, page, per_page, ts_ids, ts_videos, lookup) ==
    ListResponse(FuzzyMergedList(loaded, search, page, per_page, ts_ids, ts_videos),
                 search, page, per_page, ts_ids, lookup, "fuzzy")

\* what a handler does: the status and body it answers with, and the
\* external services it queried on the way
Outcome(code, body, queried) == [status |-> code, body |-> body, calls |-> queried]

\* an exception that leaves the handler: the framework answers 500
InternalError(queried) == Outcome(500, [error |-> "Internal Server Error"], queried)

\* mutant: the early return for an empty query is never taken
EmptyQuery_Never(search) == FALSE

\* if not search
EmptyQuery(search) == ~Truthy(search)

\* get_timestops_for_videos reaches the store when it is given ids
LookupCalls(merged) == IF merged = <<>> THEN {} ELSE {"lookup"}

\* the services queried up to the end of the try block: the search service
\* when a client is kept, the lookup when it answered and hits were listed
EsCalls(client, answer, page, per_page, ts_ids, ts_videos) ==
    IF ~client THEN {}
    ELSE IF answer.raises THEN {"elasticsearch"}
    ELSE {"elasticsearch"}
             \cup LookupCalls(EsMergedList(answer, page, per_page, ts_ids, ts_videos))

\* the fuzzy path: the division by per_page in total_pages raises for 0
FuzzyOutcome(merged, search, page, per_page, ts_ids, lookup, queried) ==
    IF per_page = 0 THEN InternalError(queried \cup LookupCalls(merged))
    ELSE Outcome(200, ListResponse(merged, search, page, per_page, ts_ids, lookup, "fuzzy"),
                 queried \cup LookupCalls(merged))

\* search_all_videos after the two id queries
SearchOutcome(loaded, client, search, page, per_page, ts_ids, ts_videos, lookup, answer, queried) ==
    IF UsesElasticsearch(client, answer) /\ per_page # 0
    THEN Outcome(200,
                 ElasticsearchResponse(answer, search, page, per_page, ts_ids, ts_videos,
                                       lookup),
                 queried)
    ELSE FuzzyOutcome(FuzzyMergedList(loaded, search, page, per_page, ts_ids, ts_videos),
                      search, page, per_page, ts_ids, lookup, queried)

\* the two id queries are made outside every try block
AfterIdQueries(loaded, client, search, page, per_page, ts, tr, lookup, answer) ==
    IF ts.raised THEN InternalError({"timestops"})
    ELSE IF tr.raised THEN InternalError({"timestops", "transcriptions"})
    ELSE SearchOutcome(loaded, client, search, page, per_page, ts.value,
                       TimestopVideos(loaded, ts.value, tr.value), lookup, answer,
                       {"timestops", "transcriptions"}
                           \cup EsCalls(client, answer, page, per_page, ts.value,
                                        TimestopVideos(loaded, ts.value, tr.value)))

\* search_all_videos: GET /api/search
search_all_videos(loaded, client, search, page, per_page, aux, answer) ==
    IF EmptyQuery(search) THEN Outcome(200, EmptyQueryResponse(per_page), {})
    ELSE AfterIdQueries(loaded, client, search, page, per_page,
                        search_timestops_in_database(aux.ts),
                        search_transcriptions_in_database(aux.tr), aux.lookup, answer)

\* the space endpoints --------------------------------------------------------

\* request.args and the path parameter of /api/spaces/<space_name>/videos
SpaceNamePool == {<<"C","a","r","d","i","o","l","o","g","y">>, UnknownSpace,
                  <<"N","o","w","h","e","r","e">>}
SpaceSearchPool == {<<>>, <<"h","e","a","r","t">>}

\* the keys of spaces_dict in insertion order: the order of first occurrence
RECURSIVE SpaceNames(_)
SpaceNames(loaded) ==
    IF loaded = <<>> THEN <<>>
    ELSE IF \E i \in 1..(Len(loaded) - 1) : SpaceKey(loaded[i]) = SpaceKey(loaded[Len(loaded)])
    THEN SpaceNames(SubSeq(loaded, 1, Len(loaded) - 1))
    ELSE Append(SpaceNames(SubSeq(loaded, 1, Len(loaded) - 1)), SpaceKey(loaded[Len(loaded)]))

\* one entry of spaces_list
SpaceSummary(name, videos) ==
    [name |-> name,
     video_count |-> Len(videos),
     videos_with_descriptions |->
         Cardinality({i \in 1..Len(videos) : Truthy(Get(videos[i], "description", None))})]

\* sorted(spaces_dict.items(), key=lambda x: len(x[1]), reverse=True)
RECURSIVE InsertByCount(_, _)
InsertByCount(sorted, x) ==
    IF sorted = <<>> THEN <<x>>
    ELSE IF sorted[1].video_count < x.video_count THEN <<x>> \o sorted
    ELSE <<sorted[1]>> \o InsertByCount(Tail(sorted), x)

RECURSIVE SpacesList(_, _)
SpacesList(spaces, names) ==
    IF names = <<>> THEN <<>>
    ELSE InsertByCount(SpacesList(spaces, SubSeq(names, 1, Len(names) - 1)),
                       SpaceSummary(names[Len(names)], spaces[names[Len(names)]]))

\* get_spaces: GET /api/spaces
get_spaces(spaces, loaded) ==
    Outcome(200,
            [spaces |-> SpacesList(spaces, SpaceNames(loaded)),
             total_videos |-> Len(loaded),
             total_spaces |-> Cardinality(DOMAIN spaces)],
            {})

\* the filter on search: title or description contains the lower-cased term
RECURSIVE SpaceFilter(_, _)
SpaceFilter(videos, search_lower) ==
    IF videos = <<>> THEN <<>>
    ELSE IF \/ Contains(Lower(Get(videos[1], "title", <<>>)), search_lower)
            \/ Contains(Lower(DescriptionOf(videos[1])), search_lower)
    THEN <<videos[1]>> \o SpaceFilter(Tail(videos), search_lower)
    ELSE SpaceFilter(Tail(videos), search_lower)

\* filtered_videos: videos itself without a search term
FilteredVideos(videos, search) ==
    IF Truthy(search) THEN SpaceFilter(videos, Lower(search)) ELSE videos

\* sorted(filtered_videos, key=lambda x: x.get('created_at', ''), reverse=True)
RECURSIVE InsertByDate(_, _)
InsertByDate(sorted, x) ==
    IF sorted = <<>> THEN <<x>>
    ELSE IF StrLt(Get(sorted[1], "created_at", <<>>), Get(x, "created_at", <<>>))
    THEN <<x>> \o sorted
    ELSE <<sorted[1]>> \o InsertByDate(Tail(sorted), x)

RECURSIVE SortByDate(_)
SortByDate(videos) ==
    IF videos = <<>> THEN <<>>
    ELSE InsertByDate(SortByDate(SubSeq(videos, 1, Len(videos) - 1)), videos[Len(videos)])

\* the exceptions of the filter and of the sort: None has no lower(), and
\* None is not ordered against a string or against None
SpaceRaises(videos, search) ==
    \/ Truthy(search) /\ \E i \in 1..Len(videos) : videos[i].title = None
    \/ /\ Len(FilteredVideos(videos, search)) >= 2
       /\ \E i \in 1..Len(FilteredVideos(videos, search)) :
              FilteredVideos(videos, search)[i].created_at = None

\* one entry of video_list of get_space_videos
SpaceEntry(video) ==
    [id |-> video.content_id,
     title |-> Get(video, "title", Untitled),
     description |-> Get(video, "description", <<>>),
     created_at |-> DisplayDate(video),
     space_name |-> Get(video, "space_name", UnknownSpace)]

SpaceVideoList(videos) == [i \in 1..Len(videos) |-> SpaceEntry(videos[i])]

\* paginate, format and answer
SpacePage(filtered_videos, space_name, page, per_page) ==
    IF per_page = 0 THEN InternalError({})
    ELSE Outcome(200,
                 [videos |-> SpaceVideoList(Paginate(filtered_videos, page, per_page)),
                  pagination |-> Pagination(page, per_page, Len(filtered_videos)),
                  space_name |-> space_name],
                 {})

\* get_space_videos: GET /api/spaces/<space_name>/videos
get_space_videos(spaces, space_name, page, per_page, search) ==
    IF space_name \notin DOMAIN spaces
    THEN Outcome(404, [error |-> "Space not found"], {})
    ELSE IF SpaceRaises(spaces[space_name], search) THEN InternalError({})
    ELSE SpacePage(SortByDate(FilteredVideos(spaces[space_name], search)),
                   space_name, page, per_page)

\* a space of 20 videos or more, for the pages of get_space_videos ----------

MaxSpaceVideos == 22

DigitChars == <<"0", "1", "2", "3", "4", "5", "6", "7", "8", "9">>
TwoDigits(n) == <<DigitChars[(n \div 10) + 1], DigitChars[(n % 10) + 1]>>

\* the ways created_at is spread over the videos of the space
DatePatterns == {"same", "two", "three", "increasing", "decreasing", "missing", "null"}

DateOf(pattern, i) ==
    CASE pattern = "same" -> <<"2","0","2","4">>
      [] pattern = "two" -> <<"2","0","2">> \o <<DigitChars[(i % 2) + 4]>>
      [] pattern = "three" -> <<"2","0","2">> \o <<DigitChars[(i % 3) + 3]>>
      [] pattern = "increasing" -> <<"2","0">> \o TwoDigits(i)
      [] pattern = "decreasing" -> <<"2","0">> \o TwoDigits(50 - i)
      [] pattern = "missing" -> IF i % 4 = 0 THEN Absent ELSE <<"2","0","2","4">>
      [] pattern = "null" -> IF i = 5 THEN None ELSE <<"2","0","2","4">>

\* the i-th video of the space; one title in five lacks the word heart
SpaceVideo(pattern, i) ==
    [content_id |-> 100 + i,
     title |-> IF i % 5 = 0 THEN <<"L","u","n","g">> ELSE <<"H","e","a","r","t">>,
     description |-> <<>>,
     created_at |-> DateOf(pattern, i),
     space_name |-> <<"C","a","r","d","i","o","l","o","g","y">>]

\* the loaded collection: a video of another space, then the space
SpaceCollection(pattern, n) ==
    <<CHOOSE v \in VideoPool : v.content_id = 4>>
        \o [i \in 1..n |-> SpaceVideo(pattern, i)]

SpaceCollections ==
    {SpaceCollection(pattern, n) : pattern \in DatePatterns,
                                   n \in 20..MaxSpaceVideos}

\* the three requests compared: two pages of 10, then one page of 20
SpacePagings == <<<<1, 10>>, <<2, 10>>, <<1, 20>>>>

\* get_video: GET /api/video/<video_id>; the first record with that id
VideoIdPool == {2, 5, 9}

RECURSIVE get_video(_, _)
get_video(loaded, video_id) ==
    IF loaded = <<>> THEN Outcome(404, [error |-> "Video not found"], {})
    ELSE IF loaded[1].content_id = video_id THEN Outcome(200, loaded[1], {})
    ELSE get_video(Tail(loaded), video_id)

----------------------------------------------------------------------------
VARIABLES
    pc,                    \* position of the run being modelled
    in_videos,             \* fuzzy_search_videos: argument videos
    in_search_term,        \* fuzzy_search_videos: argument search_term
    out_results,           \* fuzzy_search_videos: the returned list
    in_youtube_videos,     \* match_videos: the secondary records
    in_aws_videos,         \* match_videos: the primary records
    out_matches,           \* match_videos: dict content_id -> match result
    out_unmatched_youtube, \* match_videos: the unmatched secondary records
    out_unmatched_aws,     \* find_unmatched_aws_videos: the returned list
    out_merged,            \* merge_videos: the returned list
    in_str1,               \* similarity_score: argument str1
    in_str2,               \* similarity_score: argument str2
    out_score,             \* similarity_score: the returned value
    all_videos,            \* module global: the loaded collection
    spaces_dict,           \* module global: space_name -> videos
    es_client,             \* module global: TRUE when a search client is kept
    es_index,              \* the documents of the search index
    request,               \* the arguments of the request being served
    db_timestop_ids,       \* answer of search_timestops_in_database
    db_transcription_ids,  \* answer of search_transcriptions_in_database
    db_timestops,          \* answer of get_timestops_for_videos
    es_answer,             \* answer of es_client.search
    response,              \* the JSON body returned to the caller
    status,                \* the HTTP status returned to the caller
    calls,                 \* the external services queried for the request
    db_failed,             \* the auxiliary stores that raise during the request
    out_pages              \* get_space_videos: the bodies of successive pages

fuzzyVars == <<in_videos, in_search_term, out_results>>
matchVars == <<in_youtube_videos, in_aws_videos, out_matches, out_unmatched_youtube,
               out_unmatched_aws, out_merged>>
globalVars == <<all_videos, spaces_dict, es_client, es_index>>
requestVars == <<request, db_timestop_ids, db_transcription_ids, db_timestops, es_answer,
                 response, status, calls, db_failed>>
appVars == <<globalVars, requestVars>>
simVars == <<in_str1, in_str2, out_score>>
vars == <<pc, fuzzyVars, matchVars, simVars, appVars, out_pages>>

\* the variables of the runs a specification does not make
FuzzyIdle == in_videos = <<>> /\ in_search_term = <<>> /\ out_results = <<>>
SimIdle == in_str1 = <<>> /\ in_str2 = <<>> /\ out_score = RZero
MatchIdle ==
    /\ in_youtube_videos = <<>>
    /\ in_aws_videos = <<>>
    /\ out_matches = EmptyDict
    /\ out_unmatched_youtube = <<>>
    /\ out_unmatched_aws = <<>>
    /\ out_merged = <<>>

NoRequest == [endpoint |-> "none", space_name |-> <<>>, search |-> <<>>, page |-> 0,
              per_page |-> 0]
NoResponse == [videos |-> <<>>]
NoAnswer == [raises |-> FALSE, hits |-> <<>>]

RequestIdle ==
    /\ request = NoRequest
    /\ db_timestop_ids = <<>>
    /\ db_transcription_ids = <<>>
    /\ db_timestops = EmptyDict
    /\ es_answer = NoAnswer
    /\ response = NoResponse
    /\ status = 0
    /\ calls = {}
    /\ db_failed = {}
    /\ out_pages = <<>>

AppIdle ==
    /\ all_videos = <<>>
    /\ spaces_dict = EmptyDict
    /\ es_client = FALSE
    /\ es_index = <<>>
    /\ RequestIdle

\* fuzzy_search_videos called on a bounded input ----------------------------

InitFuzzy ==
    /\ pc = "call"
    /\ in_videos \in VideoLists
    /\ in_search_term \in QueryPool
    /\ out_results = <<>>
    /\ MatchIdle
    /\ SimIdle
    /\ AppIdle

FuzzySearch ==
    /\ pc = "call"
    /\ out_results' = fuzzy_search_videos(in_videos, in_search_term, DefaultThreshold)
    /\ pc' = "returned"
    /\ UNCHANGED <<in_videos, in_search_term, matchVars, simVars, appVars, out_pages>>

NextFuzzy == FuzzySearch

SpecFuzzy == InitFuzzy /\ [][NextFuzzy]_vars

\* match_videos called on a bounded input -----------------------------------

InitMatch ==
    /\ pc = "call"
    /\ in_youtube_videos \in YoutubeLists
    /\ in_aws_videos \in AwsLists
    /\ out_matches = EmptyDict
    /\ out_unmatched_youtube = <<>>
    /\ out_unmatched_aws = <<>>
    /\ out_merged = <<>>
    /\ FuzzyIdle
    /\ SimIdle
    /\ AppIdle

MatchVideos ==
    /\ pc = "call"
    /\ \E r \in {match_videos(in_youtube_videos, in_aws_videos)} :
          /\ out_matches' = r.matches
          /\ out_unmatched_youtube' = r.unmatched_youtube
    /\ pc' = "returned"
    /\ UNCHANGED <<in_youtube_videos, in_aws_videos, out_unmatched_aws, out_merged,
                   fuzzyVars, simVars, appVars, out_pages>>

NextMatch == MatchVideos

SpecMatch == InitMatch /\ [][NextMatch]_vars

\* merge_aws_youtube_videos.main: find_unmatched_aws_videos, then
\* merge_videos, on the same kinds of records
InitMerge == InitMatch

FindUnmatchedAws ==
    /\ pc = "call"
    /\ out_unmatched_aws' = find_unmatched_aws_videos(in_aws_videos, in_youtube_videos)
    /\ pc' = "unmatched"
    /\ UNCHANGED <<in_youtube_videos, in_aws_videos, out_matches, out_unmatched_youtube,
                   out_merged, fuzzyVars, simVars, appVars, out_pages>>

MergeVideos ==
    /\ pc = "unmatched"
    /\ out_merged' = merge_videos(in_youtube_videos, out_unmatched_aws)
    /\ pc' = "returned"
    /\ UNCHANGED <<in_youtube_videos, in_aws_videos, out_matches, out_unmatched_youtube,
                   out_unmatched_aws, fuzzyVars, simVars, appVars, out_pages>>

NextMerge == FindUnmatchedAws \/ MergeVideos

SpecMerge == InitMerge /\ [][NextMerge]_vars

\* both scripts run on the same lists: match_videos of
\* categorize_youtube_videos, then find_unmatched_aws_videos and
\* merge_videos of merge_aws_youtube_videos
InitAgree ==
    /\ pc = "call"
    /\ in_youtube_videos \in AgreeYoutubeLists
    /\ in_aws_videos \in AgreeAwsLists
    /\ out_matches = EmptyDict
    /\ out_unmatched_youtube = <<>>
    /\ out_unmatched_aws = <<>>
    /\ out_merged = <<>>
    /\ FuzzyIdle
    /\ SimIdle
    /\ AppIdle

MatchPass ==
    /\ pc = "call"
    /\ \E r \in {match_videos(in_youtube_videos, in_aws_videos)} :
          /\ out_matches' = r.matches
          /\ out_unmatched_youtube' = r.unmatched_youtube
    /\ pc' = "matched"
    /\ UNCHANGED <<in_youtube_videos, in_aws_videos, out_unmatched_aws, out_merged,
                   fuzzyVars, simVars, appVars, out_pages>>

UnmatchedPass ==
    /\ pc = "matched"
    /\ out_unmatched_aws' = find_unmatched_aws_videos(in_aws_videos, in_youtube_videos)
    /\ pc' = "unmatched"
    /\ UNCHANGED <<in_youtube_videos, in_aws_videos, out_matches, out_unmatched_youtube,
                   out_merged, fuzzyVars, simVars, appVars, out_pages>>

NextAgree == MatchPass \/ UnmatchedPass \/ MergeVideos

SpecAgree == InitAgree /\ [][NextAgree]_vars

\* similarity_score called on a pair of bounded strings ----------------------

InitSimilarity ==
    /\ pc = "call"
    /\ in_str1 \in StringPool
    /\ in_str2 \in StringPool
    /\ out_score = RZero
    /\ FuzzyIdle
    /\ MatchIdle
    /\ AppIdle

SimilarityScore ==
    /\ pc = "call"
    /\ out_score' = similarity_score(in_str1, in_str2)
    /\ pc' = "returned"
    /\ UNCHANGED <<in_str1, in_str2, fuzzyVars, matchVars, appVars, out_pages>>

NextSimilarity == SimilarityScore

SpecSimilarity == InitSimilarity /\ [][NextSimilarity]_vars

\* categorize_by_space called on a bounded list of videos ------------------

InitCategorize ==
    /\ pc = "call"
    /\ all_videos \in GroupedLists
    /\ spaces_dict = EmptyDict
    /\ es_client = FALSE
    /\ es_index = <<>>
    /\ RequestIdle
    /\ FuzzyIdle
    /\ MatchIdle
    /\ SimIdle

Categorize ==
    /\ pc = "call"
    /\ spaces_dict' = categorize_by_space(all_videos)
    /\ pc' = "returned"
    /\ UNCHANGED <<all_videos, es_client, es_index, requestVars, fuzzyVars, matchVars,
                   simVars, out_pages>>

NextCategorize == Categorize

SpecCategorize == InitCategorize /\ [][NextCategorize]_vars

\* the application: startup, then requests to /api/search ------------------

Init ==
    /\ pc = "startup"
    /\ FuzzyIdle
    /\ MatchIdle
    /\ SimIdle
    /\ AppIdle

\* mutant: a load failure empties the collection and keeps the grouping
Startup_KeepsGrouping ==
    /\ pc = "startup"
    /\ \E loaded \in LoadedLists, client \in BOOLEAN, indexed \in BOOLEAN,
          load_raises \in BOOLEAN :
          /\ client \/ ~indexed
          /\ load_raises => ~indexed
          /\ all_videos' = IF load_raises THEN <<>> ELSE loaded
          /\ spaces_dict' = categorize_by_space(loaded)
          /\ es_client' = client
          /\ es_index' = IF indexed THEN IndexDocs(loaded) ELSE <<>>
    /\ pc' = "serving"
    /\ UNCHANGED <<fuzzyVars, matchVars, simVars, requestVars, out_pages>>

\* module import: the client is created and pinged, the collection loaded
\* and grouped, and the index built when a client is kept
Startup ==
    /\ pc = "startup"
    /\ \E loaded \in LoadedLists, client \in BOOLEAN, indexed \in BOOLEAN,
          load_raises \in BOOLEAN :
          /\ client \/ ~indexed
          /\ load_raises => ~indexed
          /\ all_videos' = IF load_raises THEN <<>> ELSE loaded
          /\ spaces_dict' = IF load_raises THEN EmptyDict ELSE categorize_by_space(loaded)
          /\ es_client' = client
          /\ es_index' = IF indexed THEN IndexDocs(loaded) ELSE <<>>
    /\ pc' = "serving"
    /\ UNCHANGED <<fuzzyVars, matchVars, simVars, requestVars, out_pages>>

\* the request is answered with the outcome r of its handler
Reply(r) ==
    /\ response' = r.body
    /\ status' = r.status
    /\ calls' = r.calls
    /\ pc' = "responded"
    /\ UNCHANGED <<fuzzyVars, matchVars, simVars, globalVars>>

Respond(r) == Reply(r) /\ UNCHANGED out_pages

SearchRequest(search, paging) ==
    [endpoint |-> "search", space_name |-> <<>>, search |-> search, page |-> paging[1],
     per_page |-> paging[2]]

\* search_all_videos, the early return for an empty query
SearchEmptyQuery ==
    /\ pc = "serving"
    /\ \E search \in SearchPool, paging \in PagingPool, aux \in AuxScenarios :
          /\ EmptyQuery(search)
          /\ request' = SearchRequest(search, paging)
          /\ db_failed' = {store \in {"ts", "tr", "lookup"} : aux[store].raises}
          /\ Respond(search_all_videos(all_videos, es_client, search, paging[1], paging[2],
                                       aux, NoAnswer))
    /\ UNCHANGED <<db_timestop_ids, db_transcription_ids, db_timestops, es_answer>>

\* search_all_videos with a query: the id queries, then the search service
\* or fuzzy_search_videos
ServeSearch(search, paging, aux, answer) ==
    /\ request' = SearchRequest(search, paging)
    /\ db_timestop_ids' = search_timestops_in_database(aux.ts).value
    /\ db_transcription_ids' = search_transcriptions_in_database(aux.tr).value
    /\ db_timestops' = IF aux.lookup.raises THEN EmptyDict ELSE aux.lookup.rows
    /\ db_failed' = {store \in {"ts", "tr", "lookup"} : aux[store].raises}
    /\ es_answer' = answer
    /\ Respond(search_all_videos(all_videos, es_client, search, paging[1], paging[2],
                                 aux, answer))

\* what the search service answers when it is asked
ClientAnswers(paging) ==
    IF es_client
    THEN EsAnswers(es_index, (paging[1] - 1) * paging[2], paging[2])
    ELSE {NoAnswer}

\* search_all_videos served by the search service
SearchElasticsearch ==
    /\ pc = "serving"
    /\ \E search \in SearchPool, paging \in PagingPool, aux \in AuxScenarios :
          \E answer \in ClientAnswers(paging) :
              /\ ~EmptyQuery(search)
              /\ paging[2] # 0
              /\ UsesElasticsearch(es_client, answer)
              /\ ServeSearch(search, paging, aux, answer)

\* search_all_videos served by fuzzy_search_videos: no client, or the
\* client raised
SearchFuzzy ==
    /\ pc = "serving"
    /\ \E search \in SearchPool, paging \in PagingPool, aux \in AuxScenarios :
          \E answer \in ClientAnswers(paging) :
              /\ ~EmptyQuery(search)
              /\ paging[2] # 0
              /\ ~UsesElasticsearch(es_client, answer)
              /\ ServeSearch(search, paging, aux, answer)

\* search_all_videos with per_page = 0: the division in total_pages raises
\* in the try block, then again after the fuzzy search
SearchDividesByZero ==
    /\ pc = "serving"
    /\ \E search \in SearchPool, paging \in PagingPool, aux \in AuxScenarios :
          \E answer \in ClientAnswers(paging) :
              /\ ~EmptyQuery(search)
              /\ paging[2] = 0
              /\ ServeSearch(search, paging, aux, answer)

\* get_spaces
GetSpaces ==
    /\ pc = "serving"
    /\ request' = [NoRequest EXCEPT !.endpoint = "spaces"]
    /\ Respond(get_spaces(spaces_dict, all_videos))
    /\ UNCHANGED <<db_timestop_ids, db_transcription_ids, db_timestops, es_answer,
                   db_failed>>

\* get_space_videos
GetSpaceVideos ==
    /\ pc = "serving"
    /\ \E space_name \in SpaceNamePool, search \in SpaceSearchPool, paging \in PagingPool :
          /\ request' = [endpoint |-> "space_videos", space_name |-> space_name,
                         search |-> search, page |-> paging[1], per_page |-> paging[2]]
          /\ Respond(get_space_videos(spaces_dict, space_name, paging[1], paging[2], search))
    /\ UNCHANGED <<db_timestop_ids, db_transcription_ids, db_timestops, es_answer,
                   db_failed>>

\* get_video
GetVideo ==
    /\ pc = "serving"
    /\ \E video_id \in VideoIdPool :
          /\ request' = [NoRequest EXCEPT !.endpoint = "video", !.page = video_id]
          /\ Respond(get_video(all_videos, video_id))
    /\ UNCHANGED <<db_timestop_ids, db_transcription_ids, db_timestops, es_answer,
                   db_failed>>

\* the response is sent; the process waits for the next request
NextRequest ==
    /\ pc = "responded"
    /\ request' = NoRequest
    /\ db_timestop_ids' = <<>>
    /\ db_transcription_ids' = <<>>
    /\ db_timestops' = EmptyDict
    /\ es_answer' = NoAnswer
    /\ response' = NoResponse
    /\ status' = 0
    /\ calls' = {}
    /\ db_failed' = {}
    /\ pc' = "serving"
    /\ UNCHANGED <<fuzzyVars, matchVars, simVars, globalVars, out_pages>>

Next ==
    \/ Startup
    \/ SearchEmptyQuery
    \/ SearchElasticsearch
    \/ SearchFuzzy
    \/ SearchDividesByZero
    \/ GetSpaces
    \/ GetSpaceVideos
    \/ GetVideo
    \/ NextRequest

Spec == Init /\ [][Next]_vars

\* get_space_videos called three times on one space of a fixed collection ---

InitSpacePages ==
    /\ pc = "serving"
    /\ all_videos \in SpaceCollections
    /\ spaces_dict = categorize_by_space(all_videos)
    /\ es_client = FALSE
    /\ es_index = <<>>
    /\ RequestIdle
    /\ FuzzyIdle
    /\ MatchIdle
    /\ SimIdle

SpaceRequest(space_name, search, paging) ==
    [endpoint |-> "space_videos", space_name |-> space_name, search |-> search,
     page |-> paging[1], per_page |-> paging[2]]

\* the request and what it was answered with
PageServed(req, r) == [request |-> req, status |-> r.status, body |-> r.body]

GetSpacePage ==
    /\ pc = "serving"
    /\ Len(out_pages) < Len(SpacePagings)
    /\ \E search \in SpaceSearchPool :
          \E req \in {SpaceRequest(<<"C","a","r","d","i","o","l","o","g","y">>, search,
                                   SpacePagings[Len(out_pages) + 1])} :
              \E r \in {get_space_videos(spaces_dict, req.space_name, req.page,
                                         req.per_page, req.search)} :
                  /\ request' = req
                  /\ Reply(r)
                  /\ out_pages' = Append(out_pages, PageServed(req, r))
    /\ UNCHANGED <<db_timestop_ids, db_transcription_ids, db_timestops, es_answer,
                   db_failed>>

NextSpacePages == GetSpacePage \/ NextRequest

SpecSpacePages == InitSpacePages /\ [][NextSpacePages]_vars

----------------------------------------------------------------------------
(* Properties of fuzzy_search_videos                                       *)

Returned == pc = "returned"

\* C4: for any video list, fuzzy_search_videos(in_videos, "") returns zero
\* out_results.
C4_EmptyQueryNoResults ==
    (Returned /\ in_search_term = <<>>) => out_results = <<>>

\* C5: every hit returned by fuzzy_search_videos has a score in [0, 1].
C5_ScoreInUnitInterval ==
    Returned => \A i \in 1..Len(out_results) :
                    RLe(RZero, out_results[i].score) /\ RLe(out_results[i].score, ROne)

\* C6: the returned list is ordered by descending score, and hits of equal
\* score by descending created_at, a missing created_at being the smallest.
CreatedAt(v) == IF v.created_at = Absent THEN <<>> ELSE v.created_at

C6_SortedByScoreThenDate ==
    Returned =>
        \A i, j \in 1..Len(out_results) :
            i < j =>
                \/ RGt(out_results[i].score, out_results[j].score)
                \/ /\ out_results[i].score = out_results[j].score
                   /\ ~StrLt(CreatedAt(out_results[i].video), CreatedAt(out_results[j].video))

C6_Witness ==
    /\ Returned
    /\ Len(in_videos) = 2
    /\ Len(out_results) = 2
    /\ out_results[1].score = out_results[2].score
    /\ StrLt(CreatedAt(out_results[2].video), CreatedAt(out_results[1].video))
    /\ out_results[1].video = in_videos[2]

\* C7: every video whose lower-cased title contains the lower-cased, trimmed
\* query gets score 1.0 and match type exact_title, whatever its description.
TitleHasQuery(v) == Contains(Lower(v.title), Strip(Lower(in_search_term)))

C7_ExactTitleScoresOne ==
    Returned =>
        \A k \in 1..Len(in_videos) :
            TitleHasQuery(in_videos[k]) =>
                \E i \in 1..Len(out_results) :
                    /\ out_results[i].video = in_videos[k]
                    /\ out_results[i].score = ROne
                    /\ out_results[i].match_type = "exact_title"

C7_Witness ==
    /\ Returned
    /\ in_search_term # <<>>
    /\ \E k \in 1..Len(in_videos) :
          /\ TitleHasQuery(in_videos[k])
          /\ Truthy(in_videos[k].description)
    /\ \E k \in 1..Len(in_videos) : ~TitleHasQuery(in_videos[k])

\* a single-word query that is a misspelling of a word of the title of v: it
\* is no substring of the title and the per-word rule matches it to a word
QueryWord == Strip(Lower(in_search_term))

Misspelled(v) ==
    /\ Len(QueryWord) >= 3
    /\ Split(QueryWord) = <<QueryWord>>
    /\ ~Contains(Lower(v.title), QueryWord)
    /\ \E tw \in {Split(Lower(v.title))[i] : i \in 1..Len(Split(Lower(v.title)))} :
          Len(tw) >= 3 /\ fuzzy_match_word(QueryWord, tw)[1]

TitleWordSet(v) == {Split(Lower(v.title))[i] : i \in 1..Len(Split(Lower(v.title)))}

\* 0.95 times the best per-word score of the query over the title words
PhraseScore(v) ==
    LET best == CHOOSE b \in {fuzzy_match_word(QueryWord, tw)[2] : tw \in TitleWordSet(v)} :
                    \A tw \in TitleWordSet(v) : RLe(fuzzy_match_word(QueryWord, tw)[2], b)
    IN  RMul(best, <<19, 20>>)

DescriptionTypes == {"exact_description", "phrase_description", "fuzzy_description"}

\* C8 as stated: a single-word query that is a misspelling of a title word
\* and no substring of the title yields a hit with score < 1.0 and match type
\* fuzzy_title or fuzzy_word_title.
C8_TypoIsFuzzyTitle ==
    Returned =>
        \A k \in 1..Len(in_videos) :
            Misspelled(in_videos[k]) =>
                \E i \in 1..Len(out_results) :
                    /\ out_results[i].video = in_videos[k]
                    /\ RLt(out_results[i].score, ROne)
                    /\ out_results[i].match_type \in {"fuzzy_title", "fuzzy_word_title"}

\* C8 amended: such a query yields a hit with score < 1.0 and match type
\* phrase_title with score 0.95 times the word score, or, when that score is
\* below 0.6 and a description stage fires, a description match type; for
\* "Pediatric Cardiology Basics" and "Cardiologie" it is phrase_title, 57/70.
CardiologyExample(v) ==
    /\ v.content_id = 1
    /\ QueryWord = <<"c", "a", "r", "d", "i", "o", "l", "o", "g", "i", "e">>

C8_TypoIsPhraseTitle ==
    Returned =>
        \A k \in 1..Len(in_videos) :
            Misspelled(in_videos[k]) =>
                \E i \in 1..Len(out_results) :
                    LET hit == out_results[i]
                    IN  /\ hit.video = in_videos[k]
                        /\ RLt(hit.score, ROne)
                        /\ \/ /\ hit.match_type = "phrase_title"
                              /\ hit.score = PhraseScore(in_videos[k])
                           \/ /\ hit.match_type \in DescriptionTypes
                              /\ RLt(PhraseScore(in_videos[k]), <<3, 5>>)
                              /\ RGe(hit.score, PhraseScore(in_videos[k]))
                        /\ CardiologyExample(in_videos[k]) =>
                              hit.match_type = "phrase_title" /\ hit.score = <<57, 70>>

C8_Witness ==
    /\ Returned
    /\ \E k \in 1..Len(in_videos) :
          CardiologyExample(in_videos[k]) /\ Misspelled(in_videos[k])
    /\ \E i \in 1..Len(out_results) : out_results[i].match_type = "phrase_title"

----------------------------------------------------------------------------
(* Properties of match_videos                                              *)

\* similarity of the normalized titles of a secondary and a primary record
PairScore(yt, aws) ==
    TitleScore(NormalizedTitle(Get(yt, "title", <<>>)),
               NormalizedTitle(Get(aws, "title", <<>>)))

AwsIndexes == 1..Len(in_aws_videos)
YoutubeIndexes == 1..Len(in_youtube_videos)

IsMatched(yt) == yt.content_id \in DOMAIN out_matches
IsUnmatched(yt) ==
    \E i \in 1..Len(out_unmatched_youtube) : out_unmatched_youtube[i] = yt

\* C9: a secondary record is in matches only if its similarity to some
\* primary record is strictly greater than 0.85; a best score equal to 0.85
\* or below leaves it in the unmatched list.
C9_MatchOnlyAboveThreshold ==
    Returned =>
        \A k \in YoutubeIndexes :
            LET yt == in_youtube_videos[k]
            IN  /\ IsMatched(yt) =>
                      \E a \in AwsIndexes : RGt(PairScore(yt, in_aws_videos[a]), <<17, 20>>)
                /\ (\A a \in AwsIndexes : RLe(PairScore(yt, in_aws_videos[a]), <<17, 20>>))
                      => IsUnmatched(yt) /\ ~IsMatched(yt)

C9_Witness ==
    /\ Returned
    /\ \E k \in YoutubeIndexes :
          LET yt == in_youtube_videos[k]
          IN  /\ \E a \in AwsIndexes : PairScore(yt, in_aws_videos[a]) = <<17, 20>>
              /\ \A a \in AwsIndexes : RLe(PairScore(yt, in_aws_videos[a]), <<17, 20>>)
              /\ IsUnmatched(yt)
    /\ \E k \in YoutubeIndexes : IsMatched(in_youtube_videos[k])

\* C10: a match result carries the space label and title of the primary
\* record with the highest similarity, the first in list order among ties,
\* and match_score is that highest similarity.
IsFirstBest(yt, a) ==
    /\ \A b \in AwsIndexes :
          RLe(PairScore(yt, in_aws_videos[b]), PairScore(yt, in_aws_videos[a]))
    /\ \A b \in 1..(a - 1) :
          RLt(PairScore(yt, in_aws_videos[b]), PairScore(yt, in_aws_videos[a]))

C10_MatchIsFirstBest ==
    Returned =>
        \A k \in YoutubeIndexes :
            LET yt == in_youtube_videos[k]
            IN  IsMatched(yt) =>
                    \E a \in AwsIndexes :
                        /\ IsFirstBest(yt, a)
                        /\ out_matches[yt.content_id].space_name = in_aws_videos[a].space_name
                        /\ out_matches[yt.content_id].aws_title = in_aws_videos[a].title
                        /\ out_matches[yt.content_id].match_score =
                              PairScore(yt, in_aws_videos[a])

C10_Witness ==
    /\ Returned
    /\ \E k \in YoutubeIndexes :
          LET yt == in_youtube_videos[k]
          IN  /\ IsMatched(yt)
              /\ \E a, b \in AwsIndexes :
                    /\ a < b
                    /\ IsFirstBest(yt, a)
                    /\ PairScore(yt, in_aws_videos[b]) = PairScore(yt, in_aws_videos[a])
                    /\ in_aws_videos[a].space_name # in_aws_videos[b].space_name

\* C11: after match_videos over secondary records with distinct ids, every
\* secondary record is in exactly one of the two outputs (its id a key of
\* matches, or the record in the unmatched list, once); a record whose title
\* has similarity <= 0.85 to every primary title is unmatched.
TimesUnmatched(yt) ==
    Cardinality({i \in 1..Len(out_unmatched_youtube) : out_unmatched_youtube[i] = yt})

C11_EachSecondaryInExactlyOneOutput ==
    Returned =>
        /\ \A k \in YoutubeIndexes :
              LET yt == in_youtube_videos[k]
              IN  /\ IsMatched(yt) <=> ~IsUnmatched(yt)
                  /\ TimesUnmatched(yt) <= 1
                  /\ (\A a \in AwsIndexes : RLe(PairScore(yt, in_aws_videos[a]), MatchThreshold))
                        => TimesUnmatched(yt) = 1 /\ ~IsMatched(yt)
        /\ Cardinality(DOMAIN out_matches) + Len(out_unmatched_youtube)
              = Len(in_youtube_videos)

C11_Witness ==
    /\ Returned
    /\ Len(in_youtube_videos) = 2
    /\ in_aws_videos # <<>>
    /\ IsMatched(in_youtube_videos[1])
    /\ IsUnmatched(in_youtube_videos[2])
    /\ \A a \in AwsIndexes :
          RLe(PairScore(in_youtube_videos[2], in_aws_videos[a]), MatchThreshold)

\* C12: the merged collection is every secondary record once, in order,
\* followed by exactly the primary records for which no secondary record
\* has normalized-title similarity > 0.85, each once and in their original
\* order.
MergeScore(aws, yt) ==
    TitleScore(NormalizedTitle(Get(aws, "title", <<>>)),
               NormalizedTitle(Get(yt, "title", <<>>)))

\* the indexes of the primary records without a secondary counterpart
KeptAws ==
    {a \in AwsIndexes :
        \A k \in YoutubeIndexes :
            RLe(MergeScore(in_aws_videos[a], in_youtube_videos[k]), MatchThreshold)}

\* the n-th of them in list order
KthKept(n) == CHOOSE a \in KeptAws : Cardinality({b \in KeptAws : b < a}) = n - 1

C12_MergedIsSecondaryThenUnmatchedPrimary ==
    Returned =>
        /\ Len(out_merged) = Len(in_youtube_videos) + Cardinality(KeptAws)
        /\ \A k \in YoutubeIndexes : out_merged[k] = in_youtube_videos[k]
        /\ \A n \in 1..Cardinality(KeptAws) :
              out_merged[Len(in_youtube_videos) + n] = in_aws_videos[KthKept(n)]

C12_Witness ==
    /\ Returned
    /\ Len(in_youtube_videos) = 2
    /\ Len(in_aws_videos) = 2
    /\ KeptAws = {2}
    /\ Len(out_merged) = 3

----------------------------------------------------------------------------
(* Properties of similarity_score                                          *)

\* C13: similarity_score is symmetric: similarity_score(a, b) equals
\* similarity_score(b, a) for all strings a and b.
C13_SimilarityIsSymmetric ==
    Returned => out_score = similarity_score(in_str2, in_str1)

\* C14: similarity_score(a, a) is 1.0 for every non-empty string a,
\* similarity_score with an empty or absent argument is 0.0, and every
\* result lies in [0, 1].
EmptyOrAbsent(str) == str = <<>> \/ str = None

C14_SimilarityIdentityEmptyAndRange ==
    Returned =>
        /\ (in_str1 = in_str2 /\ ~EmptyOrAbsent(in_str1)) => out_score = ROne
        /\ (EmptyOrAbsent(in_str1) \/ EmptyOrAbsent(in_str2)) => out_score = RZero
        /\ RGe(out_score, RZero)
        /\ RLe(out_score, ROne)

C14_Witness ==
    /\ Returned
    /\ in_str1 = <<"h","e","a","r","t","s">>
    /\ in_str2 = in_str1
    /\ out_score = ROne

----------------------------------------------------------------------------
(* Properties of categorize_by_space                                       *)

\* the bucket a video belongs to: its label when present and non-empty
BucketKey(video) ==
    IF video.space_name \in {Absent, None, <<>>} THEN UnknownSpace ELSE video.space_name

\* how many times the video is in the bucket of that key
TimesIn(video, key) ==
    IF key \in DOMAIN spaces_dict
    THEN Cardinality({i \in 1..Len(spaces_dict[key]) : spaces_dict[key][i] = video})
    ELSE 0

\* C15: categorize_by_space partitions its input: every video is once in
\* the bucket of its label, or of the default name when the label is
\* missing, null or empty, and in no other bucket; no key is blank or null
\* and no bucket is empty; [{space:null}, {space:""}, {space:"X"}] gives the
\* default bucket of size 2 and "X" of size 1.
C15_CategorizePartitions ==
    Returned =>
        /\ \A i \in 1..Len(all_videos) :
              /\ TimesIn(all_videos[i], BucketKey(all_videos[i])) = 1
              /\ \A key \in DOMAIN spaces_dict :
                    key # BucketKey(all_videos[i]) => TimesIn(all_videos[i], key) = 0
        /\ \A key \in DOMAIN spaces_dict :
              /\ key \notin {Absent, None, <<>>}
              /\ spaces_dict[key] # <<>>
              /\ \A i \in 1..Len(spaces_dict[key]) :
                    \E j \in 1..Len(all_videos) : all_videos[j] = spaces_dict[key][i]
        /\ (/\ Len(all_videos) = 3
            /\ all_videos[1].space_name = None
            /\ all_videos[2].space_name = <<>>
            /\ all_videos[3].space_name = <<"M","i","s","c">>)
              => /\ DOMAIN spaces_dict = {UnknownSpace, <<"M","i","s","c">>}
                 /\ Len(spaces_dict[UnknownSpace]) = 2
                 /\ Len(spaces_dict[<<"M","i","s","c">>]) = 1

C15_Witness ==
    /\ Returned
    /\ Len(all_videos) = 3
    /\ all_videos[1].space_name = None
    /\ all_videos[2].space_name = <<>>
    /\ all_videos[3].space_name = <<"M","i","s","c">>
    /\ Cardinality(DOMAIN spaces_dict) = 2

----------------------------------------------------------------------------
(* Properties of search_all_videos                                         *)

\* a search request with a query has been answered
SearchAnswered ==
    pc = "responded" /\ request.endpoint = "search" /\ request.search # <<>>

\* page >= 1 and per_page > 0
ValidPaging == request.page >= 1 /\ request.per_page >= 1

\* a request with a non-empty query and a valid page has been answered
Answered == SearchAnswered /\ ValidPaging

EsServed == es_client /\ ~es_answer.raises

\* all primary hits for the query, as entries of the result list: every hit
\* of the search service, or every hit of fuzzy_search_videos
PrimaryHits ==
    IF EsServed THEN EsVideoList(es_answer.hits)
    ELSE FuzzyVideoList(fuzzy_search_videos(all_videos, request.search, DefaultThreshold))

\* the full merged list: all primary hits, then the auxiliary hits the
\* handler appends (chapter-marker ids absent from the primary hits), with
\* their timestops attached, sorted by descending score
FullMergedList ==
    LET merged == AppendTimestops(PrimaryHits, SeqIds(PrimaryHits), db_timestop_ids,
                      TimestopVideos(all_videos, db_timestop_ids, db_transcription_ids), 1)
    IN  SortDesc(AttachTimestops(merged, request.search, db_timestops), FALSE)

\* C1: for a non-empty query, on both paths, the returned hits are
\* positions (page-1)*per_page .. page*per_page-1 of the full merged list
\* and the reported total is the length of that list.
C1_PaginatedOnceAfterMerge ==
    Answered =>
        /\ status = 200
        /\ response.videos = Paginate(FullMergedList, request.page, request.per_page)
        /\ response.pagination.total = Len(FullMergedList)

\* the ids either auxiliary store returned for the query
AuxiliaryIds ==
    {db_timestop_ids[i] : i \in 1..Len(db_timestop_ids)}
        \cup {db_transcription_ids[i] : i \in 1..Len(db_transcription_ids)}

PositionsOf(id) == {i \in 1..Len(response.videos) : response.videos[i].id = id}

\* C2: a loaded video absent from the primary hits whose id is in the id
\* list of either auxiliary store appears exactly once in the results, with
\* match type timestop and score 0.5; stated for the requests whose results
\* fit the first page.
C2_AuxiliaryHitAppended ==
    (/\ Answered
     /\ request.page = 1
     /\ Len(PrimaryHits) + Cardinality(AuxiliaryIds) <= request.per_page) =>
        \A k \in 1..Len(all_videos) :
            (/\ all_videos[k].content_id \notin SeqIds(PrimaryHits)
             /\ all_videos[k].content_id \in AuxiliaryIds) =>
                /\ Cardinality(PositionsOf(all_videos[k].content_id)) = 1
                /\ \A i \in PositionsOf(all_videos[k].content_id) :
                      /\ response.videos[i].match_type = "timestop"
                      /\ response.videos[i].score = <<1, 2>>

\* the hits of fuzzy_search_videos over the loaded collection, as entries
FuzzyHits ==
    FuzzyVideoList(fuzzy_search_videos(all_videos, request.search, DefaultThreshold))

MetadataPositions ==
    {i \in 1..Len(response.videos) : response.videos[i].match_type = "metadata"}

FuzzyPosition(id) == CHOOSE j \in 1..Len(FuzzyHits) : FuzzyHits[j].id = id

\* C3: when a search client is configured and raises, a non-empty query
\* with page >= 1 and per_page >= 1 is answered with status 200, with the
\* fields of the success path and search_engine "fuzzy",
\* and the primary hits of the answer are hits of fuzzy_search_videos over
\* the loaded collection, in its order; all of them when they fit the page.
C3_FallbackToFuzzy ==
    (Answered /\ es_client /\ es_answer.raises) =>
        /\ status = 200
        /\ DOMAIN response =
              {"videos", "pagination", "search_term", "search_engine", "timestop_matches"}
        /\ DOMAIN response.pagination = {"page", "per_page", "total", "total_pages"}
        /\ response.search_engine = "fuzzy"
        /\ response.search_term = request.search
        /\ response.timestop_matches = Len(db_timestop_ids)
        /\ \A i \in MetadataPositions :
              \E j \in 1..Len(FuzzyHits) :
                  /\ FuzzyHits[j].id = response.videos[i].id
                  /\ FuzzyHits[j].score = response.videos[i].score
                  /\ FuzzyHits[j].title = response.videos[i].title
        /\ \A i, j \in MetadataPositions :
              i < j => FuzzyPosition(response.videos[i].id)
                           < FuzzyPosition(response.videos[j].id)
        /\ (/\ request.page = 1
            /\ Len(FuzzyHits) + Len(db_timestop_ids) <= request.per_page) =>
              Cardinality(MetadataPositions) = Len(FuzzyHits)

C3_Witness ==
    /\ Answered
    /\ es_client
    /\ es_answer.raises
    /\ es_index # <<>>
    /\ Len(FuzzyHits) >= 1
    /\ Cardinality(MetadataPositions) >= 1
    /\ \E i \in 1..Len(response.videos) : response.videos[i].match_type = "timestop"

----------------------------------------------------------------------------
(* Properties of get_space_videos                                          *)

\* the three requests were served for the same search term
ThreePages ==
    /\ Len(out_pages) = 3
    /\ out_pages[1].request.search = out_pages[2].request.search
    /\ out_pages[1].request.search = out_pages[3].request.search

PageIds(k) == [i \in 1..Len(out_pages[k].body.videos) |-> out_pages[k].body.videos[i].id]

NoDuplicate(ids) == \A i, j \in 1..Len(ids) : i # j => ids[i] # ids[j]

\* the videos of the space the filter of the request keeps
KeptInSpace ==
    {i \in 1..Len(all_videos) :
        /\ SpaceKey(all_videos[i]) = out_pages[1].request.space_name
        /\ \/ out_pages[1].request.search = <<>>
           \/ Contains(Lower(all_videos[i].title), Lower(out_pages[1].request.search))}

\* C16: for a space of 20 videos or more and a fixed collection, the videos
\* of get_space_videos for (page 1, per_page 10) followed by those for
\* (page 2, per_page 10) are the videos for (page 1, per_page 20), in the
\* same order, without a duplicate or a missing id, also when several
\* videos share the same created_at; the three calls have the same status.
C16_TwoPagesOfTenAreOnePageOfTwenty ==
    ThreePages =>
        /\ out_pages[1].status = out_pages[3].status
        /\ out_pages[2].status = out_pages[3].status
        /\ out_pages[3].status = 200 =>
              /\ out_pages[1].body.videos \o out_pages[2].body.videos
                    = out_pages[3].body.videos
              /\ NoDuplicate(PageIds(1) \o PageIds(2))
              /\ Len(PageIds(1)) + Len(PageIds(2))
                    = IF Cardinality(KeptInSpace) < 20 THEN Cardinality(KeptInSpace) ELSE 20
              /\ \A i \in 1..Len(PageIds(3)) :
                    \E k \in KeptInSpace : all_videos[k].content_id = PageIds(3)[i]

C16_Witness ==
    /\ ThreePages
    /\ out_pages[3].status = 200
    /\ Len(out_pages[1].body.videos) = 10
    /\ Len(out_pages[2].body.videos) = 10
    /\ Len(out_pages[3].body.videos) = 20
    /\ out_pages[3].body.videos[10].created_at = out_pages[3].body.videos[11].created_at
    /\ out_pages[3].body.videos[1].created_at # out_pages[3].body.videos[20].created_at

----------------------------------------------------------------------------
(* Properties of the request handlers                                      *)

\* a request that reaches the pagination of its handler has been answered:
\* a search with a query, or the videos of a space that exists
ReachedPaging ==
    /\ pc = "responded"
    /\ \/ request.endpoint = "search" /\ request.search # <<>>
       \/ request.endpoint = "space_videos" /\ request.space_name \in DOMAIN spaces_dict

InvalidPaging == request.page <= 0 \/ request.per_page <= 0

\* the request is refused with a validation error
Rejected == status = 400

\* the request is served with page and per_page brought back to valid values
Clamped ==
    /\ status = 200
    /\ response.pagination.page >= 1
    /\ response.pagination.per_page >= 1

\* C17: a request with page <= 0 or per_page <= 0 is clamped to valid values
\* or rejected with a validation error by search_all_videos and
\* get_space_videos; it never fails with an unhandled exception and never
\* reports a pagination block with the invalid values.
C17_InvalidPagingClampedOrRejected ==
    (ReachedPaging /\ InvalidPaging) => (Rejected \/ Clamped)

\* C18: search_all_videos with an empty query answers with status 200, an
\* empty videos list, total 0 and total_pages 0, whether or not a search
\* client is kept and whatever the auxiliary stores would do, and queries
\* none of them.
C18_EmptyQueryEmptySuccess ==
    (pc = "responded" /\ request.endpoint = "search" /\ request.search = <<>>) =>
        /\ status = 200
        /\ response.videos = <<>>
        /\ response.pagination.total = 0
        /\ response.pagination.total_pages = 0
        /\ calls = {}

C18_Witness ==
    /\ pc = "responded"
    /\ request.endpoint = "search"
    /\ request.search = <<>>
    /\ es_client
    /\ all_videos # <<>>
    /\ db_failed = {"ts", "tr", "lookup"}
    /\ status = 200
    /\ calls = {}

\* the loaded collection is empty
EmptyCollection == all_videos = <<>> /\ spaces_dict = EmptyDict

\* the body is a result without an element
EmptyResult ==
    \/ request.endpoint = "spaces" /\ response.spaces = <<>>
    \/ request.endpoint \in {"search", "space_videos"} /\ response.videos = <<>>

\* C19: when the loaded collection is empty, a request with valid page and
\* per_page to search_all_videos (any query), get_spaces or get_space_videos
\* (any space name) is answered with a well-formed empty result, not with
\* an error response.
C19_EmptyCollectionEmptyResults ==
    (/\ pc = "responded"
     /\ EmptyCollection
     /\ request.endpoint = "spaces" \/ ValidPaging) =>
        /\ status = 200
        /\ EmptyResult

\* the three stores answering what the handler used: the answer of a store
\* that did not fail, an empty one in place of a failure
StoresAnswerEmpty ==
    [ts |-> IdsAnswer(db_timestop_ids),
     tr |-> IdsAnswer(db_transcription_ids),
     lookup |-> RowsAnswer(db_timestops)]

\* what search_all_videos answers to the request with these stores
WithoutFailure ==
    search_all_videos(all_videos, es_client, request.search, request.page,
                      request.per_page, StoresAnswerEmpty, es_answer)

StoreFailed == SearchAnswered /\ db_failed # {}

\* C20: a failure of the chapter-marker search, of the transcript search or
\* of the timestop lookup during search_all_videos is not surfaced: the
\* status and the body, hence the primary hits and their order, are those
\* of the same request with the failed store answering empty, and the
\* status is 200 whenever per_page is not 0.
C20_StoreFailureNotSurfaced ==
    StoreFailed =>
        \E r \in {WithoutFailure} :
            /\ status = r.status
            /\ response = r.body
            /\ request.per_page # 0 => status = 200

C20_Witness ==
    /\ StoreFailed
    /\ ValidPaging
    /\ "ts" \in db_failed
    /\ status = 200
    /\ \E i \in 1..Len(response.videos) : response.videos[i].match_type = "metadata"

----------------------------------------------------------------------------
(* Properties of the process-wide state                                    *)

\* a request can be served, or has just been
Serving == pc \in {"serving", "responded"}

\* C21: whenever a request can be served, spaces_dict is categorize_by_space
\* of all_videos (both empty after a load failure), and no step of a
\* request handler (search, space listing, space videos, video lookup)
\* changes all_videos, spaces_dict or a video record.
C21_SnapshotIsConsistentAndReadOnly ==
    /\ [](Serving => spaces_dict = categorize_by_space(all_videos))
    /\ [][Serving => UNCHANGED <<all_videos, spaces_dict>>]_vars

\* a search attached timestops to its own entries, over a collection of two
\* spaces
C21_Witness ==
    /\ pc = "responded"
    /\ request.endpoint = "search"
    /\ status = 200
    /\ Cardinality(DOMAIN spaces_dict) = 2
    /\ \E i \in 1..Len(response.videos) :
          /\ response.videos[i].relevant_timestops # Absent
          /\ \E k \in 1..Len(all_videos) :
                all_videos[k].content_id = response.videos[i].id

----------------------------------------------------------------------------
(* Properties of the enrichment step of search_all_videos                  *)

TimestopPositions ==
    {i \in 1..Len(response.videos) : response.videos[i].match_type = "timestop"}

\* C22: a video is returned as a timestop hit (score 0.5) only if it is
\* absent from the entire primary result set of the query, not merely from
\* the requested page of primary hits.
C22_TimestopHitAbsentFromPrimaryHits ==
    Answered =>
        \A i \in TimestopPositions : response.videos[i].id \notin SeqIds(PrimaryHits)

\* the ids the transcript store returned and the chapter-marker store did not
TranscriptOnlyIds ==
    {db_transcription_ids[i] : i \in 1..Len(db_transcription_ids)}
        \ {db_timestop_ids[i] : i \in 1..Len(db_timestop_ids)}

\* C23: a loaded video whose id is returned only by the transcript store and
\* that is not among the primary hits is appended to the results as a
\* chapter-marker match is, with match type timestop; stated for the
\* requests whose results fit the first page.
C23_TranscriptOnlyHitAppended ==
    (/\ Answered
     /\ request.page = 1
     /\ Len(PrimaryHits) + Cardinality(AuxiliaryIds) <= request.per_page) =>
        \A k \in 1..Len(all_videos) :
            (/\ all_videos[k].content_id \in TranscriptOnlyIds
             /\ all_videos[k].content_id \notin SeqIds(PrimaryHits)) =>
                \E i \in TimestopPositions :
                    response.videos[i].id = all_videos[k].content_id

----------------------------------------------------------------------------
(* Properties of the scoring stages of fuzzy_search_videos                 *)

\* the query tokens: the words of 2 characters or more of the trimmed,
\* lower-cased search term
QueryTokens == SearchWords(SearchLower(in_search_term))

TitleTokens(v) == Split(Lower(Get(v, "title", <<>>)))

DescriptionText(v) == Lower(extract_text_from_html(DescriptionOf(v)))

\* the first n words of the description text
DescriptionTokens(v, n) == Slice(Split(DescriptionText(v)), 0, n)

\* the token fuzzily matches one of the words
MatchesSome(token, words) ==
    \E i \in 1..Len(words) : fuzzy_match_word(token, words[i])[1]

\* the query tokens that match a title word or one of the first 30
\* description words
MatchedTokens(v) ==
    {j \in 1..Len(QueryTokens) :
        \/ MatchesSome(QueryTokens[j], TitleTokens(v))
        \/ MatchesSome(QueryTokens[j], DescriptionTokens(v, 30))}

\* C24: a hit with match type partial has the score (number of query
\* tokens that match a title word or one of the first 30 description
\* words) / (number of query tokens) * 0.35, hence never above 0.35.
C24_PartialScoreIsTokenFraction ==
    Returned =>
        \A i \in 1..Len(out_results) :
            out_results[i].match_type = "partial" =>
                /\ out_results[i].score =
                      RMul(Rat(Cardinality(MatchedTokens(out_results[i].video)),
                               Len(QueryTokens)), <<7, 20>>)
                /\ RLe(out_results[i].score, <<7, 20>>)

\* the best word-match score of a query token over the title words
BestTitleScore(token, v) ==
    CHOOSE b \in {fuzzy_match_word(token, tw)[2] : tw \in TitleWordSet(v)} :
        \A tw \in TitleWordSet(v) : RLe(fuzzy_match_word(token, tw)[2], b)

RECURSIVE SumBestTitleScores(_, _)
SumBestTitleScores(tokens, v) ==
    IF tokens = <<>> THEN RZero
    ELSE RAdd(BestTitleScore(tokens[1], v), SumBestTitleScores(Tail(tokens), v))

\* the mean of the best word-match scores of the query tokens
MeanBestScore(v) == RDivInt(SumBestTitleScores(QueryTokens, v), Len(QueryTokens))

\* every query token matches a title word and the query is no substring of
\* the title
PhraseMatches(v) ==
    /\ QueryTokens # <<>>
    /\ ~Contains(Lower(v.title), SearchLower(in_search_term))
    /\ \A j \in 1..Len(QueryTokens) : MatchesSome(QueryTokens[j], TitleTokens(v))

\* the video has a hit whose title score is the given one: the hit keeps it
\* with match type phrase_title unless a later stage takes over, which
\* happens only below 0.6 and never lowers the score
HasPhraseScore(v, title_score) ==
    \E i \in 1..Len(out_results) :
        /\ out_results[i].video = v
        /\ RGe(out_results[i].score, title_score)
        /\ out_results[i].match_type = "phrase_title" => out_results[i].score = title_score
        /\ RGe(title_score, <<3, 5>>) => out_results[i].match_type = "phrase_title"

\* C25 as stated: when every query token matches a title word and the query
\* is no substring of the title, the title score is min(mean, 0.95), the
\* mean being that of the best word-match score of each query token, with
\* match type phrase_title.
C25_PhraseScoreIsCappedMean ==
    Returned =>
        \A k \in 1..Len(in_videos) :
            PhraseMatches(in_videos[k]) =>
                HasPhraseScore(in_videos[k], RMin(MeanBestScore(in_videos[k]), <<19, 20>>))

\* C25 amended: the title score is the mean multiplied by 0.95, hence at
\* most 0.95, with match type phrase_title.
C25_PhraseScoreIsScaledMean ==
    Returned =>
        \A k \in 1..Len(in_videos) :
            PhraseMatches(in_videos[k]) =>
                HasPhraseScore(in_videos[k], RMul(MeanBestScore(in_videos[k]), <<19, 20>>))

\* a query matched with a mean below 1, and the hit that keeps the phrase
\* score
C25_Witness ==
    /\ Returned
    /\ \E i \in 1..Len(out_results) :
          /\ PhraseMatches(out_results[i].video)
          /\ RLt(MeanBestScore(out_results[i].video), ROne)
          /\ out_results[i].match_type = "phrase_title"
          /\ out_results[i].score = RMul(MeanBestScore(out_results[i].video), <<19, 20>>)

\* the word score of stage 4: that of the first title word of 3 characters
\* or more the whole search term matches
FirstWordScore(v) ==
    LET hits == WordHits(SearchLower(in_search_term), TitleTokens(v))
    IN  IF \E i \in 1..Len(hits) : hits[i][1]
        THEN hits[CHOOSE i \in 1..Len(hits) : hits[i][1] /\ \A j \in 1..(i - 1) : ~hits[j][1]][2]
        ELSE RZero

\* the score the formula of the stage named by the match type assigns
StageScore(v, match_type) ==
    CASE match_type = "exact_description" -> <<13, 20>>
      [] match_type = "phrase_description" -> <<11, 20>>
      [] match_type = "fuzzy_description" ->
             RMul(fuzzy_match_ratio(SearchLower(in_search_term),
                                    Slice(DescriptionText(v), 0, 300)), <<9, 20>>)
      [] match_type = "partial" ->
             RMul(Rat(MatchingPairs(QueryTokens, TitleTokens(v))
                          + MatchingPairs(QueryTokens, DescriptionTokens(v, 30)),
                      Len(QueryTokens)), <<7, 20>>)
      [] match_type = "fuzzy_word_title" -> RMul(FirstWordScore(v), <<3, 4>>)

\* C26: the match type of a hit names the stage whose formula produced its
\* score: a hit tagged with a description or partial type has the score
\* that stage assigns (0.65, 0.55, ratio * 0.45, the partial formula), and a
\* hit tagged fuzzy_word_title has score wordScore * 0.75.
C26_MatchTypeNamesScoringStage ==
    Returned =>
        \A i \in 1..Len(out_results) :
            out_results[i].match_type
                    \in DescriptionTypes \cup {"partial", "fuzzy_word_title"} =>
                out_results[i].score
                    = StageScore(out_results[i].video, out_results[i].match_type)

\* <<score, match_type>> of the video after the title stages
TitleResult(v) ==
    TitleStage(Lower(Get(v, "title", <<>>)), SearchLower(in_search_term), QueryTokens,
               AdjustedThreshold(SearchLower(in_search_term), DefaultThreshold))

HitsOf(v) == {i \in 1..Len(out_results) : out_results[i].video = v}

\* what the stages after the title stages may do to a title result t
LaterStagesRespect(v, t) ==
    /\ RGe(t[1], <<3, 5>>) =>
          /\ HitsOf(v) # {}
          /\ \A i \in HitsOf(v) :
                out_results[i].score = t[1] /\ out_results[i].match_type = t[2]
    /\ RGe(t[1], <<2, 5>>) =>
          \A i \in HitsOf(v) : out_results[i].match_type # "partial"
    /\ RGt(t[1], RZero) =>
          /\ HitsOf(v) # {}
          /\ \A i \in HitsOf(v) : RGe(out_results[i].score, t[1])

\* C27: a video whose score after the title stages is >= 0.6 keeps exactly
\* that score and title match type whatever its description contains (the
\* description stages run only below 0.6); the partial stage runs only
\* below 0.4; and neither later stage lowers a running score.
C27_LaterStagesOnlyBelowTheirLimits ==
    Returned =>
        \A k \in 1..Len(in_videos) :
            LaterStagesRespect(in_videos[k], TitleResult(in_videos[k]))

\* a title score in [0.6, 1) kept although a description word matches the
\* first query token
C27_Witness ==
    /\ Returned
    /\ \E k \in 1..Len(in_videos) :
          /\ RGe(TitleResult(in_videos[k])[1], <<3, 5>>)
          /\ RLt(TitleResult(in_videos[k])[1], ROne)
          /\ MatchesSome(QueryTokens[1], DescriptionTokens(in_videos[k], 30))
          /\ \E i \in HitsOf(in_videos[k]) :
                out_results[i].match_type = TitleResult(in_videos[k])[2]

\* the threshold of the claim for the trimmed query: 0.4 below 4 characters,
\* 0.6 from 10 characters, the threshold of the caller otherwise
EffectiveThreshold ==
    IF Len(SearchLower(in_search_term)) < 4 THEN <<2, 5>>
    ELSE IF Len(SearchLower(in_search_term)) >= 10 THEN <<3, 5>>
    ELSE DefaultThreshold

TitleRatio(v) == fuzzy_match_ratio(SearchLower(in_search_term), Lower(Get(v, "title", <<>>)))

DescriptionRatio(v) ==
    fuzzy_match_ratio(SearchLower(in_search_term), Slice(DescriptionText(v), 0, 300))

\* the whole-string title test is reached: stages 1 and 2 do not apply
ReachesTitleRatio(v) ==
    /\ Len(SearchLower(in_search_term)) >= 3
    /\ ~Contains(Lower(Get(v, "title", <<>>)), SearchLower(in_search_term))
    /\ ~(QueryTokens # <<>> /\ AllWordsMatch(QueryTokens, TitleTokens(v)))

\* C28: the threshold of the whole-string title and description ratio tests
\* is 0.4 when the trimmed query is shorter than 4 characters, 0.6 when it
\* is 10 characters or more, and the threshold of the caller (0.5)
\* otherwise: a hit is tagged fuzzy_title or fuzzy_description only with a
\* ratio at or above it, and a title ratio at or above it yields a hit of
\* at least 0.85 times the ratio.
C28_ThresholdAdaptsToQueryLength ==
    Returned =>
        /\ \A i \in 1..Len(out_results) :
              /\ out_results[i].match_type = "fuzzy_title" =>
                    RGe(TitleRatio(out_results[i].video), EffectiveThreshold)
              /\ out_results[i].match_type = "fuzzy_description" =>
                    RGe(DescriptionRatio(out_results[i].video), EffectiveThreshold)
        /\ \A k \in 1..Len(in_videos) :
              (/\ ReachesTitleRatio(in_videos[k])
               /\ RGe(TitleRatio(in_videos[k]), EffectiveThreshold)) =>
                  \E i \in HitsOf(in_videos[k]) :
                      RGe(out_results[i].score, RMul(TitleRatio(in_videos[k]), <<17, 20>>))

\* a query of 3 characters accepted with a title ratio between 0.4 and 0.5
C28_Witness ==
    /\ Returned
    /\ Len(SearchLower(in_search_term)) = 3
    /\ \E i \in 1..Len(out_results) :
          /\ out_results[i].match_type = "fuzzy_title"
          /\ RLt(TitleRatio(out_results[i].video), DefaultThreshold)
          /\ out_results[i].score = RMul(TitleRatio(out_results[i].video), <<17, 20>>)

----------------------------------------------------------------------------
(* Agreement of the two matching passes                                    *)

\* the index in in_aws_videos of the primary record match_videos matched
\* the secondary record yt to (0 when none)
MatchedPrimary(yt) ==
    BestAwsMatch(NormalizedTitle(Get(yt, "title", <<>>)), in_aws_videos, 1,
                 <<0, RZero, None>>)[1]

ListedUnmatched(aws) ==
    \E i \in 1..Len(out_unmatched_aws) : out_unmatched_aws[i] = aws

InMerged(video) == \E i \in 1..Len(out_merged) : out_merged[i] = video

\* C29: the two matching passes agree: on the same primary and secondary
\* lists, a primary record that match_videos matched a secondary record to
\* is not listed by find_unmatched_aws_videos, so the merged collection
\* never holds both a secondary record and the primary record it was
\* matched to.
C29_PassesAgree ==
    Returned =>
        \A k \in YoutubeIndexes :
            LET yt == in_youtube_videos[k]
                p == MatchedPrimary(yt)
            IN  (IsMatched(yt) /\ p # 0) =>
                    /\ ~ListedUnmatched(in_aws_videos[p])
                    /\ ~(InMerged(yt) /\ InMerged(in_aws_videos[p]))

----------------------------------------------------------------------------
(* The search index after startup                                          *)

\* C30: whenever the search client is kept after startup and a search is
\* served by it, the search index holds exactly the documents of the
\* loaded collection: a failure while creating, clearing or filling the
\* index never leaves the indexed path serving results.
C30_IndexedPathServesLoadedCollection ==
    (Answered /\ EsServed /\ response.search_engine = "elasticsearch") =>
        es_index = IndexDocs(all_videos)

====
